---- MODULE Spec2Model ----
(***************************************************************************)
(* Ingestion / deduplication / retry pipeline of the news aggregator bot.  *)
(*                                                                         *)
(* The batch loop (NewsAggregatorBot.poll_cycle) and the real-time         *)
(* consumer (process_telegram_queue) are asyncio tasks on one event loop:  *)
(* a task runs without interruption until it awaits something that         *)
(* suspends.  Each action below is one such uninterrupted segment.         *)
(***************************************************************************)
EXTENDS Integers, Sequences, FiniteSets, TLC

VARIABLES
    processed_ids,     \* Database.processed_ids   : id -> timestamp
    embeddings,        \* Database.embeddings      : insertion-ordered dict, as a sequence
    message_mapping,   \* Database.message_mapping : id -> mapping record
    queue,             \* RetryQueue.queue         : insertion-ordered dict, as a sequence
    current_cycle,     \* RetryQueue.current_cycle
    stats,             \* NewsAggregatorBot.stats
    last_message_id,   \* TelegramPoller.last_message_ids of the one channel
    message_queue,     \* TelegramPoller.message_queue (real-time items)
    posted,            \* messages present in the Telegram channel
    now,               \* wall clock (time.time()), in hours
    bpc,               \* position of the batch loop
    all_entries,       \* poll_cycle local: entries still to be processed this cycle
    pe,                \* per task: locals of the running process_entry
    discord,           \* messages sent to Discord, in order, with the task that sent each
    evicted,           \* ids dropped by get_entries_to_retry (max retries exceeded), with the cycle
    last,              \* the process_entry call that returned in the last step, if any
    votes,             \* VoteTracker.votes        : discord message id -> vote record
    removed_entries,   \* RemovedEntriesDB.entries : list of removed entry records
    deleted,           \* ids of the Discord messages that have been deleted
    vh,                \* per handler slot: locals of a running not_valuable handler
    last_vote,         \* what the not_valuable handler did in the last step, if anything
    ed,                \* TelegramPoller.edit_queue and the locals of the running process_telegram_edit
    ev,                \* what a poller, the edit consumer or an archive accessor did in the last step
    disk               \* the JSON files under data/, one per persisted map

vars == <<processed_ids, embeddings, message_mapping, queue, current_cycle, stats,
          last_message_id, message_queue, posted, now, bpc, all_entries, pe, discord,
          evicted, last, votes, removed_entries, deleted, vh, last_vote, ed, ev, disk>>

voteVars == <<votes, removed_entries, deleted, vh, last_vote>>

(* The state of the event handlers that run next to the two loops *)
handlerVars == <<voteVars, ed>>

-----------------------------------------------------------------------------
(* Bounds of the model *)

MaxCycles == 1        \* poll cycles run next to the real-time consumer
MaxRetryCycles == 6   \* poll cycles run by the batch loop alone
AgedCycle == 286      \* the cycle an old retry queue entry is looked at from
MaxAgingCycles == 292 \* the cycle the batch loop runs to from there
MaxNow == 49          \* the clock stops here (hours)
MaxDiscord == 3       \* messages the publisher accepts
MaxHandlers == 2      \* not_valuable handlers in flight at the same time
MaxArchive == 3       \* records the feedback archive is filled with
MaxLimit == 2         \* largest limit asked of the archive's accessors
MaxPreviewLength == 2 \* largest max_preview_length asked of get_content_previews
MaxArchiveDays == 2   \* days the archive is watched for, and largest max_age_days
MaxStamp == 2         \* hours around the retention cutoff that are told apart
MaxEditQueue == 2     \* edited messages waiting in the edit queue
MaxIndex == 3         \* embedding records in the index find_similar is asked about
TimeStep == 49        \* granularity of the clock (hours)

(* Program constants *)

DUPLICATE_THRESHOLD == 95     \* config.DUPLICATE_THRESHOLD = 0.95, in hundredths
SIMILARITY_THRESHOLD == 70    \* config.SIMILARITY_THRESHOLD = 0.70, in hundredths
DB_RETENTION_HOURS == 48
max_retries == 3
retry_delay_cycles == 2
RETRY_MAX_AGE_HOURS == 24     \* poll_cycle: cleanup_old_entries(max_age_hours=24)
CYCLES_PER_HOUR == 12         \* RetryQueue.cleanup_old_entries: max_age_hours * 12
NOT_VALUABLE_VOTES_REQUIRED == 2
HOURS_PER_DAY == 24           \* RemovedEntriesDB.cleanup_old_entries: max_age_days * 24 * 3600

Tasks == {"batch", "rt"}
Handlers == 1..MaxHandlers
Users == {"u1", "u2", "u3"}
IdleVh == [pc |-> "idle"]
IdleEd == [pc |-> "idle", edit_queue |-> << >>]
NoEvent == [kind |-> "none"]
NoVote == [outcome |-> "none", message |-> 0, voter |-> "", vote_count |-> 0,
           is_duplicate |-> FALSE]

-----------------------------------------------------------------------------
(* The content items the pollers can deliver.  A ContentItem is determined *)
(* by its id; content is a sequence of text tokens so that merging OCR     *)
(* text is concatenation.                                                  *)

TwitterIds == {"twitter_1", "twitter_2"}
TelegramIds == {"telegram_ch_1", "telegram_ch_2"}
Ids == TwitterIds \cup TelegramIds

NoContent == << >>

Entry(id) ==
    CASE id = "twitter_1" ->
           [id |-> id, source_type |-> "twitter", content |-> <<"a">>,
            timestamp |-> 30, has_media |-> FALSE, message_id |-> 0]
      [] id = "twitter_2" ->
           [id |-> id, source_type |-> "twitter", content |-> <<"b">>,
            timestamp |-> 10, has_media |-> FALSE, message_id |-> 0]
      [] id = "telegram_ch_1" ->
           [id |-> id, source_type |-> "telegram", content |-> <<"c">>,
            timestamp |-> 20, has_media |-> FALSE, message_id |-> 1]
      [] id = "telegram_ch_2" ->
           [id |-> id, source_type |-> "telegram", content |-> NoContent,
            timestamp |-> 0, has_media |-> TRUE, message_id |-> 2]

Placeholder == <<"img">>      \* "[Image content - no text extracted]"
OcrTexts == {NoContent, <<"o">>}
FullTexts == {NoContent, <<"a2">>}
Categories == {"news", "ignore"}

(* The embedding generator is a black box text -> vector; the model fixes  *)
(* one such function.  "a"/"c" and "a"/"a2" (the full text of "a") are     *)
(* near-identical without being equal, "b" is similar to "a"               *)
(* and unrelated to "c".                                                   *)
TokenVector(t) ==
    CASE t = "a" -> <<1, 0>>
      [] t = "a2" -> <<5, 1>>
      [] t = "c" -> <<4, -1>>
      [] t = "b" -> <<1, 1>>
      [] t = "o" -> <<0, 1>>
      [] t = "img" -> <<-1, 0>>
      [] t = "[Text from images]:" -> <<0, 0>>

RECURSIVE Embed(_)
Embed(content) ==
    IF content = << >> THEN <<0, 0>>
    ELSE LET h == TokenVector(Head(content))
             r == Embed(Tail(content))
         IN  <<h[1] + r[1], h[2] + r[2]>>

(* hashlib.md5(content).hexdigest(): injective on the model's contents *)
ContentHash(content) == <<"md5", content>>

(* content[:100] *)
Preview(content) == SubSeq(content, 1, IF Len(content) < 100 THEN Len(content) ELSE 100)

-----------------------------------------------------------------------------
(* Database (database.py) *)

Dot(v, w) == v[1] * w[1] + v[2] * w[2]

(* _cosine_similarity(v, w) >= threshold/100, in exact arithmetic:         *)
(* the similarity is 0.0 when a norm is zero, else dot / (|v| * |w|).      *)
CosineAtLeast(v, w, threshold) ==
    IF Dot(v, v) = 0 \/ Dot(w, w) = 0
    THEN 0 >= threshold
    ELSE \/ /\ Dot(v, w) >= 0
            /\ threshold >= 0
            /\ Dot(v, w) * Dot(v, w) * 10000 >= threshold * threshold * Dot(v, v) * Dot(w, w)
         \/ /\ threshold < 0
            /\ \/ Dot(v, w) >= 0
               \/ Dot(v, w) * Dot(v, w) * 10000 <= threshold * threshold * Dot(v, v) * Dot(w, w)

(* Only the first stored record is compared *)
find_similar_FirstOnly(embs, embedding, threshold) ==
    IF embs # << >> /\ CosineAtLeast(embedding, embs[1].embedding, threshold) THEN 1 ELSE 0

(* find_similar: index of the first stored record whose similarity reaches *)
(* the threshold, 0 when there is none (is_duplicate = FALSE).             *)
find_similar(embs, embedding, threshold) ==
    LET hits == {i \in 1..Len(embs) : CosineAtLeast(embedding, embs[i].embedding, threshold)}
    IN  IF hits = {} THEN 0 ELSE CHOOSE i \in hits : \A j \in hits : i <= j

(* _cosine_similarity as an exact value: dot / sqrt(norms), and 0.0 when a *)
(* norm is zero                                                            *)
Similarity(v, w) ==
    IF Dot(v, v) = 0 \/ Dot(w, w) = 0 THEN [dot |-> 0, norms |-> 1]
    ELSE [dot |-> Dot(v, w), norms |-> Dot(v, v) * Dot(w, w)]

(* s > t for two similarities that are not negative *)
Closer(s, t) == s.dot * s.dot * t.norms > t.dot * t.dot * s.norms

NotFound == [is_duplicate |-> FALSE, similarity |-> [dot |-> 0, norms |-> 1],
             preview |-> << >>, found |-> FALSE]

(* The closest record that reaches the threshold is returned *)
find_similar_return_Closest(embs, embedding, threshold) ==
    LET hits == {i \in 1..Len(embs) : CosineAtLeast(embedding, embs[i].embedding, threshold)}
    IN  IF hits = {} THEN NotFound
        ELSE LET i == CHOOSE k \in hits : \A j \in hits :
                          ~Closer(Similarity(embedding, embs[j].embedding),
                                  Similarity(embedding, embs[k].embedding))
             IN  [is_duplicate |-> TRUE,
                  similarity |-> Similarity(embedding, embs[i].embedding),
                  preview |-> embs[i].preview, found |-> TRUE]

(* What find_similar returns: (True, similarity, preview) of the record    *)
(* found, or (False, 0.0, None); found tells None from an empty preview    *)
find_similar_return(embs, embedding, threshold) ==
    LET i == find_similar(embs, embedding, threshold)
    IN  IF i = 0 THEN NotFound
        ELSE [is_duplicate |-> TRUE,
              similarity |-> Similarity(embedding, embs[i].embedding),
              preview |-> embs[i].preview, found |-> TRUE]

is_processed(ledger, entry_id) == entry_id \in DOMAIN ledger

(* The ledger is written from a copy that holds nothing else *)
mark_processed_Overwrite(ledger, entry_id, t) == [x \in {entry_id} |-> t]

mark_processed(ledger, entry_id, t) ==
    [x \in DOMAIN ledger \cup {entry_id} |-> IF x = entry_id THEN t ELSE ledger[x]]

(* add_embedding: embeddings[md5(content)] = {...}; an existing key keeps  *)
(* its position in the dict and gets the new value.                        *)
add_embedding(embs, content, embedding, t) ==
    LET rec == [hash |-> ContentHash(content), embedding |-> embedding,
                timestamp |-> t, preview |-> Preview(content)]
        at == {i \in 1..Len(embs) : embs[i].hash = rec.hash}
    IN  IF at = {} THEN Append(embs, rec)
        ELSE [i \in 1..Len(embs) |-> IF i \in at THEN rec ELSE embs[i]]

store_message_mapping(mapping, entry_id, rec) ==
    [x \in DOMAIN mapping \cup {entry_id} |-> IF x = entry_id THEN rec ELSE mapping[x]]

(* Database.cleanup_old_entries: cutoff = now - DB_RETENTION_HOURS * 3600 s *)
cleanup_ledger_DropCutoff(ledger, t) ==
    [x \in {y \in DOMAIN ledger : ~(ledger[y] <= t - DB_RETENTION_HOURS)} |-> ledger[x]]

cleanup_ledger(ledger, t) ==
    [x \in {y \in DOMAIN ledger : ~(ledger[y] < t - DB_RETENTION_HOURS)} |-> ledger[x]]

cleanup_embeddings(embs, t) ==
    SelectSeq(embs, LAMBDA r : ~(r.timestamp < t - DB_RETENTION_HOURS))

-----------------------------------------------------------------------------
(* Persistence.  Every map is kept in a JSON file of its own, rewritten    *)
(* whole by the _save_* method of its class.  A dict is written as a JSON  *)
(* object, the set of its key/value pairs (the keys are strings in memory  *)
(* already); the insertion-ordered dicts and the lists the model keeps as  *)
(* sequences are written in their order.                                   *)

json_dump_dict(f) == {<<k, f[k]>> : k \in DOMAIN f}

json_load_dict(doc) == [k \in {kv[1] : kv \in doc} |-> (CHOOSE kv \in doc : kv[1] = k)[2]]

json_dump_list(seq) == [kind |-> "array", items |-> seq]

json_load_list(doc) == doc.items

(* The file is left as it was *)
save_dict_Skip(d, file, f) == d

(* Database._save_json, VoteTracker._save_votes *)
save_dict(d, file, f) == [d EXCEPT ![file] = json_dump_dict(f)]

(* RetryQueue._save_queue, RemovedEntriesDB._save_entries, and             *)
(* Database._save_json of the embeddings                                   *)
save_list(d, file, seq) == [d EXCEPT ![file] = json_dump_list(seq)]

(* TelegramPoller._save_last_message_ids *)
save_last_message_ids(d, id) == [d EXCEPT !.last_message_ids = id]

(* The files that hold exactly the maps in memory *)
Snapshot(ledger, embs, mapping, q, vs, entries, last_id) ==
    [processed_ids |-> json_dump_dict(ledger),
     embeddings |-> json_dump_list(embs),
     message_mapping |-> json_dump_dict(mapping),
     queue |-> json_dump_list(q),
     votes |-> json_dump_dict(vs),
     removed_entries |-> json_dump_list(entries),
     last_message_ids |-> last_id]

-----------------------------------------------------------------------------
(* RetryQueue (retry_queue.py).  The queue dict is a sequence of           *)
(* [id, retry_count, first_attempt_cycle, last_attempt_cycle]; the stored  *)
(* entry is Entry(id).                                                     *)

InQueue(q, entry_id) == \E i \in 1..Len(q) : q[i].id = entry_id

QueueEntry(q, entry_id) == q[CHOOSE i \in 1..Len(q) : q[i].id = entry_id]

(* A repeated failure restarts the entry: first_attempt_cycle is reset *)
add_entry_ResetFirst(q, entry_id, cycle) ==
    IF InQueue(q, entry_id)
    THEN [i \in 1..Len(q) |->
            IF q[i].id = entry_id
            THEN [q[i] EXCEPT !.retry_count = @ + 1, !.first_attempt_cycle = cycle,
                              !.last_attempt_cycle = cycle]
            ELSE q[i]]
    ELSE Append(q, [id |-> entry_id, retry_count |-> 1,
                    first_attempt_cycle |-> cycle, last_attempt_cycle |-> cycle])

add_entry(q, entry_id, cycle) ==
    IF InQueue(q, entry_id)
    THEN [i \in 1..Len(q) |->
            IF q[i].id = entry_id
            THEN [q[i] EXCEPT !.retry_count = @ + 1, !.last_attempt_cycle = cycle]
            ELSE q[i]]
    ELSE Append(q, [id |-> entry_id, retry_count |-> 1,
                    first_attempt_cycle |-> cycle, last_attempt_cycle |-> cycle])

remove_entry(q, entry_id) == SelectSeq(q, LAMBDA e : e.id # entry_id)

(* RetryQueue.cleanup_old_entries(max_age_hours) *)
(* No entry expires *)
rq_cleanup_old_entries_KeepAll(q, cycle, max_age_hours) == q

rq_cleanup_old_entries(q, cycle, max_age_hours) ==
    SelectSeq(q, LAMBDA e : ~(cycle - e.first_attempt_cycle > max_age_hours * CYCLES_PER_HOUR))

(* get_entries_to_retry: the entries over max_retries are removed, the     *)
(* others are returned when enough cycles have passed.                     *)
ExceededMaxRetries(e) == e.retry_count > max_retries

EligibleForRetry(e, cycle) == cycle - e.last_attempt_cycle >= retry_delay_cycles

(* The scan never removes an entry *)
queue_after_scan_KeepAll(q) == q

queue_after_scan(q) == SelectSeq(q, LAMBDA e : ~ExceededMaxRetries(e))

RECURSIVE IdsOf(_)
IdsOf(q) == IF q = << >> THEN << >> ELSE <<Head(q).id>> \o IdsOf(Tail(q))

get_entries_to_retry(q, cycle) ==
    IdsOf(SelectSeq(queue_after_scan(q), LAMBDA e : EligibleForRetry(e, cycle)))

scan_evicted(q) == {q[i].id : i \in {j \in 1..Len(q) : ExceededMaxRetries(q[j])}}

-----------------------------------------------------------------------------
(* poll_cycle helpers *)

(* get_entry_timestamp: the entry's timestamp, 0 when it has none *)
get_entry_timestamp(entry_id) == Entry(entry_id).timestamp

(* list.sort(key=get_entry_timestamp): stable, ascending *)
RECURSIVE InsertSorted(_, _)
InsertSorted(s, x) ==
    IF s = << >> THEN <<x>>
    ELSE IF get_entry_timestamp(Head(s)) <= get_entry_timestamp(x)
         THEN <<Head(s)>> \o InsertSorted(Tail(s), x)
         ELSE <<x>> \o s

RECURSIVE SortEntries(_)
(* The entries are left in the order they were collected in *)
SortEntries_Unsorted(s) == s

SortEntries(s) ==
    IF s = << >> THEN << >>
    ELSE InsertSorted(SortEntries(SubSeq(s, 1, Len(s) - 1)), s[Len(s)])

RECURSIVE SetToSeq(_)
SetToSeq(S) ==
    IF S = {} THEN << >>
    ELSE LET x == CHOOSE y \in S : TRUE IN <<x>> \o SetToSeq(S \ {x})

-----------------------------------------------------------------------------
(* process_entry (main.py 108-330), one predicate per uninterrupted        *)
(* segment.  A segment ends by returning (Return) or by suspending in an   *)
(* await (Suspend).                                                        *)

IdlePe == [pc |-> "idle"]

(* The outcome of a process_entry call: what it returned, and what it had  *)
(* computed by then (the embedding checked against the index, whether the  *)
(* classifier was called, the category handed to the publisher).           *)
Outcome(id, result, success, embedding, category, classified) ==
    [id |-> id, result |-> result, success |-> success, embedding |-> embedding,
     category |-> category, classified |-> classified]

Early(id, result) == Outcome(id, result, FALSE, << >>, "", FALSE)

NoOutcome == [task |-> "", queued |-> FALSE] @@ Early("", "none")

(* f"{content}\n\n[Text from images]:\n{ocr_text}" *)
CombinedContent(content, ocr_text) ==
    IF ocr_text = NoContent THEN content
    ELSE content \o <<"[Text from images]:">> \o ocr_text

(* The caller never takes a successful entry out of the retry queue *)
Return_NoRemove(p, o, q1, d1) ==
    /\ last' = [task |-> p, queued |-> InQueue(q1, o.id)] @@ o
    /\ pe' = [pe EXCEPT ![p] = IdlePe]
    /\ queue' = q1
    /\ disk' = d1
    /\ ev' = NoEvent
    /\ IF p = "batch"
       THEN all_entries' = Tail(all_entries) /\ bpc' = "loop"
       ELSE UNCHANGED <<all_entries, bpc>>

(* What the caller does once process_entry has returned: poll_cycle removes *)
(* a successful entry from the retry queue and goes on with its loop, the  *)
(* real-time consumer goes back to waiting.  q1 is the retry queue as      *)
(* process_entry left it and d1 the files; last.queued tells whether the   *)
(* entry was in the queue.  remove_entry saves the queue when it removes.  *)
Return(p, o, q1, d1) ==
    /\ last' = [task |-> p, queued |-> InQueue(q1, o.id)] @@ o
    /\ pe' = [pe EXCEPT ![p] = IdlePe]
    /\ ev' = NoEvent
    /\ IF p = "batch"
       THEN /\ queue' = IF o.success THEN remove_entry(q1, o.id) ELSE q1
            /\ disk' = IF o.success /\ InQueue(q1, o.id)
                       THEN save_list(d1, "queue", remove_entry(q1, o.id)) ELSE d1
            /\ all_entries' = Tail(all_entries)
            /\ bpc' = "loop"
       ELSE /\ queue' = q1
            /\ disk' = d1
            /\ UNCHANGED <<all_entries, bpc>>

(* The failing call also writes the entry into the ledger *)
ReturnFalse_MarkProcessed(p, o, errors, duplicates, q1) ==
    /\ stats' = [stats EXCEPT !.errors = @ + errors, !.duplicates = @ + duplicates]
    /\ processed_ids' = mark_processed(processed_ids, o.id, now)
    /\ UNCHANGED <<embeddings, message_mapping, last_message_id, discord>>
    /\ Return(p, o, q1, IF q1 # queue THEN save_list(disk, "queue", q1) ELSE disk)

(* A return of False that leaves the State Store alone; q1 differs from    *)
(* the queue when add_entry was called, which saves the queue.             *)
ReturnFalse(p, o, errors, duplicates, q1) ==
    /\ stats' = [stats EXCEPT !.errors = @ + errors, !.duplicates = @ + duplicates]
    /\ UNCHANGED <<processed_ids, embeddings, message_mapping, last_message_id, discord>>
    /\ Return(p, o, q1, IF q1 # queue THEN save_list(disk, "queue", q1) ELSE disk)

(* The generic handler also puts the entry into the retry queue *)
TerminalError_Requeue(p, o) == ReturnFalse(p, o, 1, 0, add_entry(queue, o.id, current_cycle))

(* main.py 320-330: except Exception: count the error, return False *)
TerminalError(p, o) == ReturnFalse(p, o, 1, 0, queue)

(* The handler counts the error and forgets the entry *)
ExtractionFailed_NotQueued(p, o) == ReturnFalse(p, o, 1, 0, queue)

(* main.py 306-318: except GalleryDlFailure: retry_queue.add_entry(entry), *)
(* count the error, return False                                           *)
ExtractionFailed(p, o) == ReturnFalse(p, o, 1, 0, add_entry(queue, o.id, current_cycle))

Suspend(p, locals) ==
    /\ pe' = [pe EXCEPT ![p] = locals]
    /\ IF p = "batch" THEN bpc' = "await" ELSE UNCHANGED bpc
    /\ UNCHANGED <<processed_ids, embeddings, message_mapping, last_message_id, discord,
                   stats, queue, all_entries, disk>>
    /\ last' = NoOutcome
    /\ ev' = NoEvent

(* The result of a media download that did not raise *)
Downloaded(content, ocr_text, timeout) ==
    [fail |-> FALSE, timeout |-> timeout, content |-> content, ocr_text |-> ocr_text]

(* MediaHandler.download_twitter_media: the entry comes back with the      *)
(* extracted full text (or none) and the OCR text of its images (or none). *)
(* When gallery-dl times out (subprocess.TimeoutExpired) the entry comes   *)
(* back with no media, no OCR text and no full text.                       *)
download_twitter_media(content) ==
    {Downloaded(IF ft = NoContent THEN content ELSE ft, o, FALSE) :
        ft \in FullTexts, o \in OcrTexts}
    \cup {Downloaded(content, NoContent, TRUE)}

(* The recoverable extraction failure main.py catches as GalleryDlFailure *)
GalleryDlFailure ==
    [fail |-> TRUE, timeout |-> FALSE, content |-> NoContent, ocr_text |-> NoContent]

(* main.py 204-220: media download unless the media is already there *)
DownloadOutcomes(id, content, media_ready, ocr_text) ==
    IF media_ready THEN {Downloaded(content, ocr_text, FALSE)}
    ELSE IF Entry(id).source_type = "twitter"
         THEN download_twitter_media(content) \cup {GalleryDlFailure}
         ELSE {Downloaded(content, NoContent, FALSE)}

DEFAULT_CATEGORY == "ignore"

(* OllamaClient.categorize: the category the model answers, or, when the   *)
(* call fails, the default category; it never raises.                      *)
categorize ==
    {[category |-> c, failed |-> FALSE] : c \in Categories}
    \cup {[category |-> DEFAULT_CATEGORY, failed |-> TRUE]}

(* A classifier call is made for every item, similar or not *)
CategoryChoices_AlwaysClassify(is_similar) ==
    {[category |-> c.category, classified |-> TRUE, classifier_failed |-> c.failed] :
        c \in categorize}

(* Every item gets the forced category *)
CategoryChoices_AlwaysForce(is_similar) ==
    {[category |-> "ignore", classified |-> FALSE, classifier_failed |-> FALSE]}

(* main.py 194-202 and 226-233: the forced category of a similar item, or  *)
(* the classifier's answer                                                 *)
CategoryChoices(is_similar) ==
    IF is_similar
    THEN {[category |-> "ignore", classified |-> FALSE, classifier_failed |-> FALSE]}
    ELSE {[category |-> c.category, classified |-> TRUE, classifier_failed |-> c.failed] :
            c \in categorize}

(* main.py 163-241: from the content check to the await of post_message *)
FromContent(p, id, content, media_ready, ocr_text) ==
    IF content = NoContent
    THEN ReturnFalse(p, Early(id, "no_content"), 1, 0, queue)
    ELSE \/ TerminalError(p, Early(id, "embedding_error"))
         \/ LET embedding == Embed(content)
                is_duplicate == find_similar(embeddings, embedding, DUPLICATE_THRESHOLD) # 0
                is_similar == find_similar(embeddings, embedding, SIMILARITY_THRESHOLD) # 0
            IN  IF is_duplicate
                THEN ReturnFalse(p, Outcome(id, "duplicate", FALSE, embedding, "", FALSE),
                                 0, 1, queue)
                ELSE \E dl \in DownloadOutcomes(id, content, media_ready, ocr_text) :
                       IF dl.fail
                       THEN ExtractionFailed(p, Outcome(id, "retry_queued", FALSE, embedding,
                                                        "", FALSE))
                       ELSE \E c \in CategoryChoices(is_similar) :
                              Suspend(p, [pc |-> "post", id |-> id, content |-> dl.content,
                                          embedding |-> embedding, ocr_text |-> dl.ocr_text,
                                          category |-> c.category,
                                          classified |-> c.classified,
                                          classifier_failed |-> c.classifier_failed,
                                          timeout |-> dl.timeout])

(* main.py 118-166: entry to process_entry *)
ProcessEntryStart(p, id) ==
    IF is_processed(processed_ids, id)
    THEN ReturnFalse(p, Early(id, "already_processed"), 0, 0, queue)
    ELSE IF /\ Entry(id).source_type = "telegram"
            /\ Entry(id).content = NoContent
            /\ Entry(id).has_media
         THEN Suspend(p, [pc |-> "ocr", id |-> id])
         ELSE FromContent(p, id, Entry(id).content, FALSE, NoContent)

(* main.py 137-161: back from download_telegram_media of an image-only entry *)
ProcessEntryAfterOcr(p) ==
    LET id == pe[p].id IN
    \/ ReturnFalse(p, Early(id, "no_media"), 1, 0, queue)
    \/ \E ocr_text \in OcrTexts :
         FromContent(p, id, IF ocr_text # NoContent THEN ocr_text ELSE Placeholder,
                     TRUE, ocr_text)

(* TelegramPoller.update_last_message_id *)
update_last_message_id(current_last_id, id) ==
    IF Entry(id).source_type = "telegram" /\ Entry(id).message_id > current_last_id
    THEN Entry(id).message_id ELSE current_last_id

(* post_message: the channel of the category (discord_poster.py 815) *)
ChannelOf(category) == <<"channel", category>>

(* main.py 264-273: the entry's link, or the t.me URL of the message *)
SourceUrl(id) == <<"url", id>>

(* The record store_message_mapping is called with at main.py 277-286; no  *)
(* entry carries video_urls                                                *)
MappingRecordAt(l, discord_message_id, t) ==
    [telegram_message_id |-> Entry(l.id).message_id,
     discord_channel_id |-> ChannelOf(l.category),
     discord_message_id |-> discord_message_id,
     content |-> l.content, source_url |-> SourceUrl(l.id), video_urls |-> << >>,
     category |-> l.category, timestamp |-> t]

MappingRecord(l, discord_message_id) == MappingRecordAt(l, discord_message_id, now)

(* main.py 250-296: the commit after a successful post *)
CommitLedger(l) == mark_processed(processed_ids, l.id, now)

CommitEmbedding(l) ==
    IF l.ocr_text # NoContent
    THEN add_embedding(embeddings, CombinedContent(l.content, l.ocr_text),
                       Embed(CombinedContent(l.content, l.ocr_text)), now)
    ELSE add_embedding(embeddings, l.content, l.embedding, now)

(* post_message: the text of the message sent, content followed by the    *)
(* hidden links of the video URLs (the model's contents stay below the     *)
(* 2000 character limit)                                                   *)
MessageText(content, video_urls) == content \o video_urls

(* main.py 241-304: back from post_message *)
PostOutcome(l, result, success) ==
    Outcome(l.id, result, success, l.embedding, l.category, l.classified)

(* A failed post puts the entry into the retry queue *)
PostFailed_Requeue(p, l) ==
    ReturnFalse(p, PostOutcome(l, "post_failed", FALSE), 1, 0,
                add_entry(queue, l.id, current_cycle))

(* main.py 297-304: post_message returned success = False *)
PostFailed(p, l) == ReturnFalse(p, PostOutcome(l, "post_failed", FALSE), 1, 0, queue)

ProcessEntryAfterPost(p) ==
    LET l == pe[p] IN
    \/ TerminalError(p, PostOutcome(l, "post_raised", FALSE))
    \/ PostFailed(p, l)
    \/ /\ Len(discord) < MaxDiscord
       /\ discord' = Append(discord, [entry_id |-> l.id, category |-> l.category,
                                       content |-> MessageText(l.content, << >>),
                                       embedding |-> l.embedding, task |-> p])
       /\ processed_ids' = CommitLedger(l)
       /\ \/ /\ l.ocr_text # NoContent
             /\ stats' = [stats EXCEPT !.errors = @ + 1]
             /\ UNCHANGED <<embeddings, message_mapping, last_message_id>>
             /\ Return(p, PostOutcome(l, "commit_error", FALSE), queue,
                       save_dict(disk, "processed_ids", processed_ids'))
          \/ /\ embeddings' = CommitEmbedding(l)
             /\ message_mapping' =
                   store_message_mapping(message_mapping, l.id, MappingRecord(l, Len(discord) + 1))
             /\ last_message_id' = update_last_message_id(last_message_id, l.id)
             /\ stats' = [stats EXCEPT !.processed = @ + 1]
             /\ LET d1 == save_dict(disk, "processed_ids", processed_ids')
                    d2 == save_list(d1, "embeddings", embeddings')
                    d3 == save_dict(d2, "message_mapping", message_mapping')
                    d4 == IF last_message_id' # last_message_id
                          THEN save_last_message_ids(d3, last_message_id') ELSE d3
                IN  Return(p, PostOutcome(l, "ok", TRUE), queue, d4)

-----------------------------------------------------------------------------
(* The batch loop: NewsAggregatorBot.run / poll_cycle (main.py 332-454)    *)

(* The real-time consumer and the event handlers run only while the batch  *)
(* loop is suspended in an await.                                          *)
BatchSuspended == bpc \in {"sleep", "polling", "await"}

(* RSSPoller.poll_all_feeds: whatever the feeds hold at the moment; a feed *)
(* that fails contributes nothing.                                         *)
poll_all_feeds == {SetToSeq(S) : S \in SUBSET TwitterIds}

(* What a call of a poller does in poll_cycle: it returns entries, or it   *)
(* raises and poll_cycle logs the error (main.py 376-390).                 *)
PollOutcomes(results) ==
    {[failed |-> FALSE, entries |-> e] : e \in results}
    \cup {[failed |-> TRUE, entries |-> << >>]}

Polled(kind, poll) == [kind |-> kind, failed |-> poll.failed]

(* main.py 376-381: all_entries.extend(rss_entries) unless the poll raised *)
collect_rss(collected, poll) ==
    IF poll.failed THEN collected ELSE collected \o poll.entries

(* A failed Telegram poll ends the cycle with nothing to process *)
collect_telegram_Abort(collected, poll) ==
    IF poll.failed THEN << >> ELSE SortEntries(collected \o poll.entries)

(* main.py 384-410: all_entries.extend(telegram_entries) unless the poll   *)
(* raised, then the sort                                                   *)
collect_telegram(collected, poll) ==
    SortEntries(IF poll.failed THEN collected ELSE collected \o poll.entries)

(* TelegramPoller.poll_all_channels / poll_channel: the channel's messages *)
(* after the last seen one, or nothing when the poll fails.                *)
poll_all_channels ==
    {SetToSeq({id \in posted : Entry(id).message_id > last_message_id}), << >>}

(* main.py 338-387: from the start of the cycle to the await of the        *)
(* Telegram poll.  feeds is what the RSS poll can return.                  *)
poll_cycle(cycles, feeds) ==
    /\ UNCHANGED handlerVars
    /\ bpc = "sleep"
    /\ current_cycle < cycles
    /\ current_cycle' = current_cycle + 1
    /\ stats' = [processed |-> 0, duplicates |-> 0, errors |-> 0]
    /\ processed_ids' = cleanup_ledger(processed_ids, now)
    /\ embeddings' = cleanup_embeddings(embeddings, now)
    /\ LET aged == rq_cleanup_old_entries(queue, current_cycle', RETRY_MAX_AGE_HOURS)
           retry_entries == get_entries_to_retry(aged, current_cycle')
       IN  /\ queue' = queue_after_scan(aged)
           /\ evicted' = evicted \cup {[id |-> id, cycle |-> current_cycle'] :
                                          id \in scan_evicted(aged)}
           /\ \E poll \in PollOutcomes(feeds) :
                /\ all_entries' = collect_rss(retry_entries, poll)
                /\ ev' = Polled("poll_rss", poll)
    /\ LET d1 == IF processed_ids' # processed_ids
                 THEN save_dict(disk, "processed_ids", processed_ids') ELSE disk
           d2 == IF embeddings' # embeddings
                 THEN save_list(d1, "embeddings", embeddings') ELSE d1
       IN  disk' = IF queue' # queue THEN save_list(d2, "queue", queue') ELSE d2
    /\ bpc' = "polling"
    /\ last' = NoOutcome
    /\ UNCHANGED <<message_mapping, last_message_id, message_queue, posted, now, pe,
                   discord>>

PollCycleStart == poll_cycle(MaxCycles, poll_all_feeds)

(* main.py 387-411: the Telegram poll returns; the entries are sorted *)
PollCycleCollect ==
    /\ UNCHANGED handlerVars
    /\ bpc = "polling"
    /\ \E poll \in PollOutcomes(poll_all_channels) :
         /\ all_entries' = collect_telegram(all_entries, poll)
         /\ ev' = Polled("poll_telegram", poll)
    /\ bpc' = "loop"
    /\ UNCHANGED <<processed_ids, embeddings, message_mapping, queue, current_cycle, stats,
                   last_message_id, message_queue, posted, now, pe, discord, evicted, disk>>
    /\ last' = NoOutcome

(* main.py 416-435: one iteration of the loop over all_entries, up to the  *)
(* point where process_entry returns or suspends.                          *)
PollCycleEntry ==
    /\ UNCHANGED handlerVars
    /\ bpc = "loop"
    /\ all_entries # << >>
    /\ LET id == Head(all_entries) IN
       IF is_processed(processed_ids, id)
       THEN /\ queue' = remove_entry(queue, id)
            /\ disk' = IF InQueue(queue, id) THEN save_list(disk, "queue", queue') ELSE disk
            /\ all_entries' = Tail(all_entries)
            /\ last' = NoOutcome
            /\ ev' = NoEvent
            /\ UNCHANGED <<processed_ids, embeddings, message_mapping, stats,
                           last_message_id, bpc, pe, discord>>
       ELSE ProcessEntryStart("batch", id)
    /\ UNCHANGED <<current_cycle, message_queue, posted, now, evicted>>

(* process_entry of the batch loop resumes from its await *)
PollCycleResume ==
    /\ UNCHANGED handlerVars
    /\ bpc = "await"
    /\ \/ pe["batch"].pc = "ocr" /\ ProcessEntryAfterOcr("batch")
       \/ pe["batch"].pc = "post" /\ ProcessEntryAfterPost("batch")
    /\ UNCHANGED <<current_cycle, message_queue, posted, now, evicted>>

(* main.py 437-454 and run(): the cycle ends, the loop sleeps POLL_INTERVAL *)
PollCycleEnd ==
    /\ UNCHANGED handlerVars
    /\ bpc = "loop"
    /\ all_entries = << >>
    /\ bpc' = "sleep"
    /\ UNCHANGED <<processed_ids, embeddings, message_mapping, queue, current_cycle, stats,
                   last_message_id, message_queue, posted, now, all_entries, pe, discord,
                   evicted, disk>>
    /\ last' = NoOutcome
    /\ ev' = NoEvent

-----------------------------------------------------------------------------
(* The real-time consumer: process_telegram_queue (main.py 456-469)        *)

QueueTake ==
    /\ UNCHANGED handlerVars
    /\ BatchSuspended
    /\ pe["rt"].pc = "idle"
    /\ message_queue # << >>
    /\ message_queue' = Tail(message_queue)
    /\ ProcessEntryStart("rt", Head(message_queue))
    /\ UNCHANGED <<current_cycle, posted, now, evicted>>

QueueResume ==
    /\ UNCHANGED handlerVars
    /\ BatchSuspended
    /\ \/ pe["rt"].pc = "ocr" /\ ProcessEntryAfterOcr("rt")
       \/ pe["rt"].pc = "post" /\ ProcessEntryAfterPost("rt")
    /\ UNCHANGED <<current_cycle, message_queue, posted, now, evicted>>

-----------------------------------------------------------------------------
(* Environment *)

(* A message appears in the Telegram channel (message ids grow); the       *)
(* NewMessage handler on_new_message queues it unless the event is missed. *)
on_new_message(channel_messages) ==
    /\ UNCHANGED handlerVars
    /\ BatchSuspended
    /\ \E id \in channel_messages \ posted :
         /\ \A other \in posted : Entry(other).message_id < Entry(id).message_id
         /\ posted' = posted \cup {id}
         /\ \/ message_queue' = Append(message_queue, id)
            \/ UNCHANGED message_queue
    /\ UNCHANGED <<processed_ids, embeddings, message_mapping, queue, current_cycle, stats,
                   last_message_id, now, bpc, all_entries, pe, discord, evicted, disk>>
    /\ last' = NoOutcome
    /\ ev' = NoEvent

TextMessage == on_new_message({"telegram_ch_1"})

AnyMessage == on_new_message(TelegramIds)

(* Time passes *)
Tick ==
    /\ UNCHANGED handlerVars
    /\ bpc = "sleep"
    /\ \A p \in Tasks : pe[p].pc = "idle"
    /\ now + TimeStep <= MaxNow
    /\ now' = now + TimeStep
    /\ UNCHANGED <<processed_ids, embeddings, message_mapping, queue, current_cycle, stats,
                   last_message_id, message_queue, posted, bpc, all_entries, pe, discord,
                   evicted, disk>>
    /\ last' = NoOutcome
    /\ ev' = NoEvent

-----------------------------------------------------------------------------
(* VoteTracker (vote_tracker.py) and the "Not Valuable" context menu        *)
(* command (discord_poster.py 415-577).  A Discord message is identified   *)
(* by its position in the publisher's log.                                 *)

Range(seq) == {seq[i] : i \in 1..Len(seq)}

(* The voters recorded for a message, none when it has no record *)
Voters(vs, message) == IF message \in DOMAIN vs THEN vs[message].voters ELSE << >>

(* A vote is appended whether or not the user has voted before *)
add_vote_NoDuplicateCheck(vs, message, voter, entry_data) ==
    LET rec == IF message \in DOMAIN vs THEN vs[message]
               ELSE [voters |-> << >>, entry_id |-> entry_data]
        new == [rec EXCEPT !.voters = Append(@, voter)]
    IN  [votes |-> [x \in DOMAIN vs \cup {message} |-> IF x = message THEN new ELSE vs[x]],
         vote_count |-> Len(new.voters), is_duplicate |-> FALSE]

(* VoteTracker.add_vote: the vote records after the call and the returned  *)
(* (vote_count, is_duplicate_vote).  The record is created on the first    *)
(* vote, with the entry metadata.                                          *)
add_vote(vs, message, voter, entry_data) ==
    LET rec == IF message \in DOMAIN vs THEN vs[message]
               ELSE [voters |-> << >>, entry_id |-> entry_data]
        with == [x \in DOMAIN vs \cup {message} |-> IF x = message THEN rec ELSE vs[x]]
    IN  IF voter \in Range(rec.voters)
        THEN [votes |-> with, vote_count |-> Len(rec.voters), is_duplicate |-> TRUE]
        ELSE [votes |-> [with EXCEPT ![message].voters = Append(@, voter)],
              vote_count |-> Len(rec.voters) + 1, is_duplicate |-> FALSE]

(* VoteTracker.remove_tracking *)
remove_tracking(vs, message) == [x \in DOMAIN vs \ {message} |-> vs[x]]

(* discord_poster.py 448-461: the entry the message was posted for, by the *)
(* message mapping; "unknown_<message id>" when no mapping names it.       *)
LookupEntry(mapping, message) ==
    LET hits == {id \in DOMAIN mapping : mapping[id].discord_message_id = message}
    IN  IF hits = {}
        THEN [entry_id |-> "unknown_" \o ToString(message), category |-> "unknown"]
        ELSE LET id == CHOOSE x \in hits : TRUE
             IN  [entry_id |-> id, category |-> mapping[id].category]

(* One vote is enough *)
QuorumReached_FirstVote(vote_count) == vote_count >= 1

(* discord_poster.py 486-489: vote_count >= votes_required *)
QuorumReached(vote_count) == vote_count >= NOT_VALUABLE_VOTES_REQUIRED

(* discord_poster.py 508-526: the entry leaves the ledger and the mapping, *)
(* and the record keyed by the md5 of the message text leaves the index.   *)
remove_from_ledger(ledger, entry_id) == [x \in DOMAIN ledger \ {entry_id} |-> ledger[x]]

remove_from_mapping(mapping, entry_id) == [x \in DOMAIN mapping \ {entry_id} |-> mapping[x]]

remove_embedding(embs, content) == SelectSeq(embs, LAMBDA r : r.hash # ContentHash(content))

(* RemovedEntriesDB.add_removed_entry *)
add_removed_entry(entries, entry_id, content, category, voter_ids, message, t) ==
    Append(entries, [entry_id |-> entry_id, content |-> content, category |-> category,
                     removed_at |-> t, voter_ids |-> voter_ids,
                     discord_message_id |-> message])

pipelineVars == <<queue, current_cycle, stats, last_message_id, message_queue, posted, now,
                  bpc, all_entries, pe, discord, evicted>>

(* discord_poster.py 415-421: a user picks "Not Valuable" on a message of  *)
(* the bot that is still there; the handler awaits the deferral.           *)
vote_invoke(handlers, users, messages) ==
    \E h \in handlers, u \in users, m \in messages \cap 1..Len(discord) :
        /\ vh[h].pc = "idle"
        /\ m \notin deleted
        /\ vh' = [vh EXCEPT ![h] = [pc |-> "deferred", voter |-> u, message |-> m]]
        /\ last_vote' = NoVote
        /\ last' = NoOutcome
        /\ ev' = NoEvent
        /\ UNCHANGED <<processed_ids, embeddings, message_mapping, votes, removed_entries,
                       deleted, ed, disk>>
        /\ UNCHANGED pipelineVars

VoteInvoke == vote_invoke(Handlers, Users, 1..MaxDiscord)

(* discord_poster.py 441-498 and 554-559: the vote is recorded; a repeated *)
(* vote and a vote below the quorum end the handler, a vote that reaches   *)
(* the quorum goes on to await message.delete().                           *)
VoteRecord ==
    \E h \in Handlers :
        /\ vh[h].pc = "deferred"
        /\ LET m == vh[h].message
               e == LookupEntry(message_mapping, m)
               r == add_vote(votes, m, vh[h].voter, e.entry_id)
               result(outcome) == [outcome |-> outcome, message |-> m, voter |-> vh[h].voter,
                                   vote_count |-> r.vote_count,
                                   is_duplicate |-> r.is_duplicate]
           IN  /\ votes' = r.votes
               /\ disk' = IF r.is_duplicate THEN disk ELSE save_dict(disk, "votes", r.votes)
               /\ IF r.is_duplicate
                  THEN vh' = [vh EXCEPT ![h] = IdleVh] /\ last_vote' = result("duplicate")
                  ELSE IF QuorumReached(r.vote_count)
                  THEN /\ vh' = [vh EXCEPT ![h] = [pc |-> "delete", voter |-> vh[h].voter,
                                                   message |-> m, entry_id |-> e.entry_id,
                                                   category |-> e.category,
                                                   content |-> discord[m].content,
                                                   vote_count |-> r.vote_count]]
                       /\ last_vote' = result("quorum")
                  ELSE vh' = [vh EXCEPT ![h] = IdleVh] /\ last_vote' = result("recorded")
        /\ last' = NoOutcome
        /\ ev' = NoEvent
        /\ UNCHANGED <<processed_ids, embeddings, message_mapping, removed_entries, deleted, ed>>
        /\ UNCHANGED pipelineVars

(* discord_poster.py 498-552: message.delete() returns; when it raised     *)
(* (always for a message that is gone) the handler ends, otherwise the     *)
(* entry is removed from the database and archived, and the vote record    *)
(* is dropped.  voter_ids is the list object of the vote record.           *)
VoteDelete ==
    \E h \in Handlers :
        /\ vh[h].pc = "delete"
        /\ LET l == vh[h]
               result(outcome) == [outcome |-> outcome, message |-> l.message,
                                   voter |-> l.voter, vote_count |-> l.vote_count,
                                   is_duplicate |-> FALSE]
           IN  \/ /\ last_vote' = result("delete_failed")
                  /\ UNCHANGED <<processed_ids, embeddings, message_mapping, votes,
                                 removed_entries, deleted, disk>>
               \/ /\ l.message \notin deleted
                  /\ deleted' = deleted \cup {l.message}
                  /\ processed_ids' = remove_from_ledger(processed_ids, l.entry_id)
                  /\ message_mapping' = remove_from_mapping(message_mapping, l.entry_id)
                  /\ embeddings' = remove_embedding(embeddings, l.content)
                  /\ removed_entries' =
                       add_removed_entry(removed_entries, l.entry_id, l.content, l.category,
                                         Voters(votes, l.message), l.message, now)
                  /\ votes' = remove_tracking(votes, l.message)
                  /\ LET d1 == IF is_processed(processed_ids, l.entry_id)
                                THEN save_dict(disk, "processed_ids", processed_ids') ELSE disk
                         d2 == IF l.entry_id \in DOMAIN message_mapping
                               THEN save_dict(d1, "message_mapping", message_mapping') ELSE d1
                         d3 == IF embeddings' # embeddings
                               THEN save_list(d2, "embeddings", embeddings') ELSE d2
                         d4 == save_list(d3, "removed_entries", removed_entries')
                     IN  disk' = IF l.message \in DOMAIN votes
                                 THEN save_dict(d4, "votes", votes') ELSE d4
                  /\ last_vote' = result("removed")
        /\ vh' = [vh EXCEPT ![h] = IdleVh]
        /\ last' = NoOutcome
        /\ ev' = NoEvent
        /\ UNCHANGED ed
        /\ UNCHANGED pipelineVars

-----------------------------------------------------------------------------
(* The edit consumer: process_telegram_edits / process_telegram_edit       *)
(* (main.py 471-558), fed by TelegramPoller.on_message_edited.             *)

(* What the text of an edited message can be: as it was, changed, or gone *)
EditContents == {<<"c">>, <<"c2">>, NoContent}

editFrame == <<queue, current_cycle, stats, last_message_id, message_queue, posted, now, bpc,
               all_entries, pe, evicted, processed_ids, embeddings, voteVars>>

EditOutcome(entry, mapping_info, result, success) ==
    [kind |-> "edit", id |-> entry.id, content |-> entry.content,
     mapping_info |-> mapping_info, result |-> result, success |-> success]

(* telegram_poller.py 133-169: the parsed message goes into the edit queue *)
on_message_edited(contents) ==
    /\ BatchSuspended
    /\ Len(ed.edit_queue) < MaxEditQueue
    /\ \E id \in posted, content \in contents :
         ed' = [ed EXCEPT !.edit_queue = Append(@, [id |-> id, content |-> content])]
    /\ last' = NoOutcome
    /\ ev' = NoEvent
    /\ UNCHANGED <<editFrame, message_mapping, discord, disk>>

MessageEdited == on_message_edited(EditContents)

(* main.py 535-548: the mapping written after a successful edit *)
EditedMapping_DropCategory(mapping_info, new_content, t) ==
    [telegram_message_id |-> mapping_info.telegram_message_id,
     discord_channel_id |-> mapping_info.discord_channel_id,
     discord_message_id |-> mapping_info.discord_message_id,
     content |-> new_content, source_url |-> mapping_info.source_url,
     video_urls |-> mapping_info.video_urls, category |-> "",
     timestamp |-> t]

EditedMapping(mapping_info, new_content, t) ==
    [telegram_message_id |-> mapping_info.telegram_message_id,
     discord_channel_id |-> mapping_info.discord_channel_id,
     discord_message_id |-> mapping_info.discord_message_id,
     content |-> new_content, source_url |-> mapping_info.source_url,
     video_urls |-> mapping_info.video_urls, category |-> mapping_info.category,
     timestamp |-> t]

(* main.py 475-532: an edit is taken from the queue; process_telegram_edit *)
(* returns at once without a mapping, without new content or with the     *)
(* content it knows, and awaits edit_message otherwise                     *)
EditTake ==
    /\ BatchSuspended
    /\ ed.pc = "idle"
    /\ ed.edit_queue # << >>
    /\ LET edited_entry == Head(ed.edit_queue)
           rest == Tail(ed.edit_queue)
           idle == [pc |-> "idle", edit_queue |-> rest]
       IN  IF edited_entry.id \notin DOMAIN message_mapping
           THEN /\ ed' = idle
                /\ ev' = EditOutcome(edited_entry, << >>, "no_mapping", FALSE)
           ELSE LET mapping_info == message_mapping[edited_entry.id]
                IN  IF edited_entry.content = NoContent
                    THEN /\ ed' = idle
                         /\ ev' = EditOutcome(edited_entry, mapping_info, "no_content", FALSE)
                    ELSE IF mapping_info.content = edited_entry.content
                    THEN /\ ed' = idle
                         /\ ev' = EditOutcome(edited_entry, mapping_info, "unchanged", TRUE)
                    ELSE /\ ed' = [pc |-> "edit", edit_queue |-> rest,
                                   edited_entry |-> edited_entry,
                                   mapping_info |-> mapping_info]
                         /\ ev' = NoEvent
    /\ last' = NoOutcome
    /\ UNCHANGED <<editFrame, message_mapping, discord, disk>>

(* main.py 526-554: edit_message returns.  It fails for a message that is  *)
(* gone and on any error of the publisher; after a success the mapping is  *)
(* stored again, from the mapping_info read before the await.              *)
EditResume ==
    /\ BatchSuspended
    /\ ed.pc = "edit"
    /\ LET l == ed
           m == l.mapping_info.discord_message_id
       IN  \/ /\ ev' = EditOutcome(l.edited_entry, l.mapping_info, "edit_failed", FALSE)
              /\ UNCHANGED <<message_mapping, discord, disk>>
           \/ /\ m \notin deleted
              /\ discord' = [discord EXCEPT ![m].content = l.edited_entry.content]
              /\ message_mapping' =
                    store_message_mapping(message_mapping, l.edited_entry.id,
                                          EditedMapping(l.mapping_info, l.edited_entry.content,
                                                        now))
              /\ disk' = save_dict(disk, "message_mapping", message_mapping')
              /\ ev' = EditOutcome(l.edited_entry, l.mapping_info, "edited", TRUE)
    /\ ed' = [pc |-> "idle", edit_queue |-> ed.edit_queue]
    /\ last' = NoOutcome
    /\ UNCHANGED editFrame

(* The edit consumer alone, after the real-time consumer has published     *)
(* and committed the channel's text message                                *)
InitEdits ==
    /\ \E c \in Categories :
         LET l == [id |-> "telegram_ch_1", content |-> Entry("telegram_ch_1").content,
                   category |-> c]
         IN  /\ message_mapping = store_message_mapping(<< >>, l.id, MappingRecordAt(l, 1, 0))
             /\ discord = <<[entry_id |-> l.id, category |-> c,
                             content |-> MessageText(l.content, << >>),
                             embedding |-> Embed(l.content), task |-> "rt"]>>
    /\ processed_ids = mark_processed(<< >>, "telegram_ch_1", 0)
    /\ embeddings = add_embedding(<< >>, Entry("telegram_ch_1").content,
                                  Embed(Entry("telegram_ch_1").content), 0)
    /\ queue = << >>
    /\ current_cycle = 0
    /\ stats = [processed |-> 1, duplicates |-> 0, errors |-> 0]
    /\ last_message_id = 1
    /\ message_queue = << >>
    /\ posted = {"telegram_ch_1"}
    /\ now = 0
    /\ bpc = "sleep"
    /\ all_entries = << >>
    /\ pe = [p \in Tasks |-> IdlePe]
    /\ evicted = {}
    /\ last = NoOutcome
    /\ votes = << >>
    /\ removed_entries = << >>
    /\ deleted = {}
    /\ vh = [h \in Handlers |-> IdleVh]
    /\ last_vote = NoVote
    /\ ed = IdleEd
    /\ ev = NoEvent
    /\ disk = Snapshot(processed_ids, embeddings, message_mapping, queue, votes,
                       removed_entries, last_message_id)

NextEdits ==
    \/ MessageEdited
    \/ EditTake
    \/ EditResume

SpecEdits == InitEdits /\ [][NextEdits]_vars

-----------------------------------------------------------------------------

Init ==
    /\ processed_ids = << >>
    /\ embeddings = << >>
    /\ message_mapping = << >>
    /\ queue = << >>
    /\ current_cycle = 0
    /\ stats = [processed |-> 0, duplicates |-> 0, errors |-> 0]
    /\ last_message_id = 0
    /\ message_queue = << >>
    /\ posted = {}
    /\ now = 0
    /\ bpc = "sleep"
    /\ all_entries = << >>
    /\ pe = [p \in Tasks |-> IdlePe]
    /\ discord = << >>
    /\ evicted = {}
    /\ last = NoOutcome
    /\ votes = << >>
    /\ removed_entries = << >>
    /\ deleted = {}
    /\ vh = [h \in Handlers |-> IdleVh]
    /\ last_vote = NoVote
    /\ ed = IdleEd
    /\ ev = NoEvent
    /\ disk = Snapshot(processed_ids, embeddings, message_mapping, queue, votes,
                       removed_entries, last_message_id)

(* Both loops over Twitter items and text messages of the channel *)
Next ==
    \/ PollCycleStart
    \/ PollCycleCollect
    \/ PollCycleEntry
    \/ PollCycleResume
    \/ PollCycleEnd
    \/ QueueTake
    \/ QueueResume
    \/ TextMessage
    \/ Tick

Spec == Init /\ [][Next]_vars

(* The batch loop alone, over many cycles, while the channel is silent *)
RetryCycleStart == poll_cycle(MaxRetryCycles, poll_all_feeds)

NextRetry ==
    \/ RetryCycleStart
    \/ PollCycleCollect
    \/ PollCycleEntry
    \/ PollCycleResume
    \/ PollCycleEnd

SpecRetry == Init /\ [][NextRetry]_vars

(* The real-time consumer alone, image-only messages included *)
NextRealtime ==
    \/ AnyMessage
    \/ QueueTake
    \/ QueueResume

SpecRealtime == Init /\ [][NextRealtime]_vars

(* The batch loop late in a long run.  twitter_1 failed extraction in      *)
(* cycle 1 and has left the feed; each retry since cycle 3 ended in a      *)
(* terminal error, which leaves the queue entry as it was.  The loop keeps *)
(* running: a cycle follows the sleep, and every await returns.            *)
InitAging ==
    /\ processed_ids = << >>
    /\ embeddings = << >>
    /\ message_mapping = << >>
    /\ queue = add_entry(<< >>, "twitter_1", 1)
    /\ current_cycle = AgedCycle
    /\ stats = [processed |-> 0, duplicates |-> 0, errors |-> 1]
    /\ last_message_id = 0
    /\ message_queue = << >>
    /\ posted = {}
    /\ now = 0
    /\ bpc = "sleep"
    /\ all_entries = << >>
    /\ pe = [p \in Tasks |-> IdlePe]
    /\ discord = << >>
    /\ evicted = {}
    /\ last = NoOutcome
    /\ votes = << >>
    /\ removed_entries = << >>
    /\ deleted = {}
    /\ vh = [h \in Handlers |-> IdleVh]
    /\ last_vote = NoVote
    /\ ed = IdleEd
    /\ ev = NoEvent
    /\ disk = Snapshot(processed_ids, embeddings, message_mapping, queue, votes,
                       removed_entries, last_message_id)

AgingCycleStart == poll_cycle(MaxAgingCycles, {<< >>})

NextAging ==
    \/ AgingCycleStart
    \/ PollCycleCollect
    \/ PollCycleEntry
    \/ PollCycleResume
    \/ PollCycleEnd

SpecAging == InitAging /\ [][NextAging]_vars /\ WF_vars(NextAging)

(* The vote handlers, on a message the pipeline has published.  The item   *)
(* was committed with its plain content, with the extracted full text or   *)
(* with merged OCR text, or its commit stopped after the ledger write.     *)
PublishedLocals ==
    {[id |-> "twitter_1", content |-> dl.content, ocr_text |-> dl.ocr_text,
      embedding |-> Embed(Entry("twitter_1").content), category |-> c, committed |-> ok] :
        dl \in {d \in download_twitter_media(Entry("twitter_1").content) : ~d.timeout},
        c \in Categories, ok \in BOOLEAN}

PublishedState(l) ==
    /\ l.committed \/ l.ocr_text # NoContent
    /\ discord = <<[entry_id |-> l.id, category |-> l.category,
                    content |-> MessageText(l.content, << >>),
                    embedding |-> l.embedding, task |-> "batch"]>>
    /\ processed_ids = mark_processed(<< >>, l.id, 0)
    /\ embeddings =
         IF ~l.committed THEN << >>
         ELSE IF l.ocr_text # NoContent
         THEN add_embedding(<< >>, CombinedContent(l.content, l.ocr_text),
                            Embed(CombinedContent(l.content, l.ocr_text)), 0)
         ELSE add_embedding(<< >>, l.content, l.embedding, 0)
    /\ message_mapping =
         IF l.committed THEN store_message_mapping(<< >>, l.id, MappingRecordAt(l, 1, 0))
         ELSE << >>

InitVotes ==
    /\ \E l \in PublishedLocals : PublishedState(l)
    /\ queue = << >>
    /\ current_cycle = 1
    /\ stats \in {[processed |-> 1, duplicates |-> 0, errors |-> 0],
                  [processed |-> 0, duplicates |-> 0, errors |-> 1]}
    /\ stats.processed = 1 <=> message_mapping # << >>
    /\ last_message_id = 0
    /\ message_queue = << >>
    /\ posted = {}
    /\ now = 0
    /\ bpc = "sleep"
    /\ all_entries = << >>
    /\ pe = [p \in Tasks |-> IdlePe]
    /\ evicted = {}
    /\ last = NoOutcome
    /\ votes = << >>
    /\ removed_entries = << >>
    /\ deleted = {}
    /\ vh = [h \in Handlers |-> IdleVh]
    /\ last_vote = NoVote
    /\ ed = IdleEd
    /\ ev = NoEvent
    /\ disk = Snapshot(processed_ids, embeddings, message_mapping, queue, votes,
                       removed_entries, last_message_id)

NextVotes ==
    \/ VoteInvoke
    \/ VoteRecord
    \/ VoteDelete

SpecVotes == InitVotes /\ [][NextVotes]_vars

-----------------------------------------------------------------------------
(* RemovedEntriesDB (removed_entries.py), the feedback archive, under any  *)
(* sequence of its operations.  Text is a sequence of characters.          *)

ArchiveContents == {<<"a">>, <<"a", "b", "c">>}

Ellipsis == <<".", ".", ".">>

(* sorted(entries, key=removed_at, reverse=True): stable, so records with  *)
(* the same removed_at keep their order                                    *)
RECURSIVE InsertByRemovedAt(_, _)
InsertByRemovedAt(s, x) ==
    IF s = << >> THEN <<x>>
    ELSE IF Head(s).removed_at >= x.removed_at
         THEN <<Head(s)>> \o InsertByRemovedAt(Tail(s), x)
         ELSE <<x>> \o s

RECURSIVE SortNewestFirst(_)
SortNewestFirst(s) ==
    IF s = << >> THEN << >>
    ELSE InsertByRemovedAt(SortNewestFirst(SubSeq(s, 1, Len(s) - 1)), s[Len(s)])

(* sorted_entries[:limit] *)
get_recent_removed_entries(entries, limit) ==
    SubSeq(SortNewestFirst(entries), 1, IF limit < Len(entries) THEN limit ELSE Len(entries))

(* content[:max_preview_length] + "..." when the content is longer *)
ContentPreview(content, max_preview_length) ==
    IF Len(content) > max_preview_length
    THEN SubSeq(content, 1, max_preview_length) \o Ellipsis
    ELSE content

get_content_previews(entries, limit, max_preview_length) ==
    LET recent_entries == get_recent_removed_entries(entries, limit)
    IN  [i \in 1..Len(recent_entries) |->
            ContentPreview(recent_entries[i].content, max_preview_length)]

(* restore_entry: the first record of the entry is popped *)
restore_entry(entries, entry_id) ==
    LET at == {i \in 1..Len(entries) : entries[i].entry_id = entry_id}
    IN  IF at = {} THEN entries
        ELSE LET first == CHOOSE i \in at : \A j \in at : i <= j
             IN  SubSeq(entries, 1, first - 1) \o SubSeq(entries, first + 1, Len(entries))

(* RemovedEntriesDB.cleanup_old_entries(max_age_days) *)
archive_cleanup_old_entries(entries, t, max_age_days) ==
    SelectSeq(entries, LAMBDA e : e.removed_at >= t - max_age_days * HOURS_PER_DAY)

archiveFrame == <<processed_ids, embeddings, message_mapping, queue, current_cycle, stats,
                  last_message_id, message_queue, posted, bpc, all_entries, pe, discord,
                  evicted, last, votes, deleted, vh, last_vote, ed>>

(* What changes the archive: the operation, and the cutoff of a cleanup *)
ArchiveOp(op, cutoff) == [kind |-> "archive", op |-> op, cutoff |-> cutoff]

ArchiveAdd ==
    /\ Len(removed_entries) < MaxArchive
    /\ \E id \in TwitterIds, content \in ArchiveContents :
         removed_entries' = add_removed_entry(removed_entries, id, content, "news",
                                              <<"u1", "u2">>, Len(removed_entries) + 1, now)
    /\ disk' = save_list(disk, "removed_entries", removed_entries')
    /\ ev' = ArchiveOp("add_removed_entry", 0)
    /\ UNCHANGED <<archiveFrame, now>>

ArchiveRestore ==
    /\ \E id \in TwitterIds :
         /\ removed_entries' = restore_entry(removed_entries, id)
         /\ disk' = IF removed_entries' # removed_entries
                    THEN save_list(disk, "removed_entries", removed_entries') ELSE disk
    /\ ev' = ArchiveOp("restore_entry", 0)
    /\ UNCHANGED <<archiveFrame, now>>

ArchiveCleanup ==
    /\ \E max_age_days \in 0..MaxArchiveDays :
         /\ removed_entries' = archive_cleanup_old_entries(removed_entries, now, max_age_days)
         /\ ev' = ArchiveOp("cleanup_old_entries", now - max_age_days * HOURS_PER_DAY)
    /\ disk' = IF removed_entries' # removed_entries
               THEN save_list(disk, "removed_entries", removed_entries') ELSE disk
    /\ UNCHANGED <<archiveFrame, now>>

ArchiveRecent ==
    /\ \E limit \in 0..MaxLimit :
         ev' = [kind |-> "archive", op |-> "get_recent_removed_entries", limit |-> limit,
                result |-> get_recent_removed_entries(removed_entries, limit)]
    /\ UNCHANGED <<archiveFrame, now, removed_entries, disk>>

ArchivePreviews ==
    /\ \E limit \in 0..MaxLimit, max_preview_length \in 1..MaxPreviewLength :
         ev' = [kind |-> "archive", op |-> "get_content_previews", limit |-> limit,
                max_preview_length |-> max_preview_length,
                recent |-> get_recent_removed_entries(removed_entries, limit),
                result |-> get_content_previews(removed_entries, limit, max_preview_length)]
    /\ UNCHANGED <<archiveFrame, now, removed_entries, disk>>

(* A day passes *)
ArchiveTick ==
    /\ now < MaxArchiveDays * HOURS_PER_DAY
    /\ now' = now + HOURS_PER_DAY
    /\ ev' = NoEvent
    /\ UNCHANGED <<archiveFrame, removed_entries, disk>>

NextArchive ==
    \/ ArchiveAdd
    \/ ArchiveRestore
    \/ ArchiveCleanup
    \/ ArchiveRecent
    \/ ArchivePreviews
    \/ ArchiveTick

SpecArchive == Init /\ [][NextArchive]_vars

-----------------------------------------------------------------------------
(* Database.cleanup_old_entries on stores whose timestamps lie around the  *)
(* cutoff: the items were committed, one after the other, in the first     *)
(* hours and the retention window ends there now.                          *)

RetentionOrder == <<"twitter_2", "twitter_1">>

RetainedItems == {SelectSeq(RetentionOrder, LAMBDA id : id \in S) : S \in SUBSET TwitterIds}

RetainedLocals(items, i) ==
    [id |-> items[i], content |-> Entry(items[i]).content,
     category |-> IF i = 1 THEN "news" ELSE "ignore"]

RECURSIVE RetainedEmbeddings(_, _)
RetainedEmbeddings(items, te) ==
    IF items = << >> THEN << >>
    ELSE LET id == items[Len(items)]
         IN  add_embedding(RetainedEmbeddings(SubSeq(items, 1, Len(items) - 1), te),
                           Entry(id).content, Embed(Entry(id).content), te[id])

(* Database.cleanup_old_entries (database.py 143-172), with what it logs *)
CleanupOldEntries ==
    /\ processed_ids' = cleanup_ledger(processed_ids, now)
    /\ embeddings' = cleanup_embeddings(embeddings, now)
    /\ LET d1 == IF processed_ids' # processed_ids
                 THEN save_dict(disk, "processed_ids", processed_ids') ELSE disk
       IN  disk' = IF embeddings' # embeddings
                   THEN save_list(d1, "embeddings", embeddings') ELSE d1
    /\ ev' = [kind |-> "db_cleanup", cutoff |-> now - DB_RETENTION_HOURS,
              old_ids |-> Cardinality(DOMAIN processed_ids) - Cardinality(DOMAIN processed_ids'),
              old_embeddings |-> Len(embeddings) - Len(embeddings')]
    /\ UNCHANGED <<message_mapping, queue, current_cycle, stats, last_message_id,
                   message_queue, posted, now, bpc, all_entries, pe, discord, evicted, last,
                   votes, removed_entries, deleted, vh, last_vote, ed>>

(* An hour passes *)
RetentionTick ==
    /\ now < DB_RETENTION_HOURS + MaxStamp
    /\ now' = now + 1
    /\ ev' = NoEvent
    /\ UNCHANGED <<processed_ids, embeddings, message_mapping, queue, current_cycle, stats,
                   last_message_id, message_queue, posted, bpc, all_entries, pe, discord,
                   evicted, last, votes, removed_entries, deleted, vh, last_vote, ed, disk>>

InitRetention ==
    /\ \E items \in RetainedItems :
       \E tl, te \in [TwitterIds -> 0..MaxStamp] :
         /\ \A id \in TwitterIds : IF id \in Range(items) THEN tl[id] <= te[id]
                                    ELSE tl[id] = 0 /\ te[id] = 0
         /\ Len(items) = 2 => te[items[1]] <= tl[items[2]]
         /\ processed_ids = [id \in Range(items) |-> tl[id]]
         /\ embeddings = RetainedEmbeddings(items, te)
         /\ message_mapping = [id \in Range(items) |->
                MappingRecordAt(RetainedLocals(items, CHOOSE i \in 1..Len(items) : items[i] = id),
                                CHOOSE i \in 1..Len(items) : items[i] = id, te[id])]
         /\ discord = [i \in 1..Len(items) |->
                [entry_id |-> items[i], category |-> RetainedLocals(items, i).category,
                 content |-> MessageText(Entry(items[i]).content, << >>),
                 embedding |-> Embed(Entry(items[i]).content), task |-> "batch"]]
         /\ stats = [processed |-> Len(items), duplicates |-> 0, errors |-> 0]
    /\ queue = << >>
    /\ current_cycle = 1
    /\ last_message_id = 0
    /\ message_queue = << >>
    /\ posted = {}
    /\ now = DB_RETENTION_HOURS
    /\ bpc = "sleep"
    /\ all_entries = << >>
    /\ pe = [p \in Tasks |-> IdlePe]
    /\ evicted = {}
    /\ last = NoOutcome
    /\ votes = << >>
    /\ removed_entries = << >>
    /\ deleted = {}
    /\ vh = [h \in Handlers |-> IdleVh]
    /\ last_vote = NoVote
    /\ ed = IdleEd
    /\ ev = NoEvent
    /\ disk = Snapshot(processed_ids, embeddings, message_mapping, queue, votes,
                       removed_entries, last_message_id)

NextRetention ==
    \/ CleanupOldEntries
    \/ RetentionTick

SpecRetention == InitRetention /\ [][NextRetention]_vars

-----------------------------------------------------------------------------
(* The batch loop, the real-time consumer, the edit consumer and the       *)
(* not_valuable handlers as run() starts them, over the shared stores, and *)
(* the restart of the process.                                             *)

(* One Twitter item in the feeds, one text message in the channel *)
SharedCycleStart == poll_cycle(MaxCycles, {<< >>, <<"twitter_1">>})

(* The text of the message is changed *)
SharedEdit == on_message_edited({<<"c2">>})

(* Two users vote on the first message, one after the other *)
SharedVote == vote_invoke({1}, {"u1", "u2"}, {1})

NextShared ==
    \/ SharedCycleStart
    \/ PollCycleCollect
    \/ PollCycleEntry
    \/ PollCycleResume
    \/ PollCycleEnd
    \/ TextMessage
    \/ QueueTake
    \/ QueueResume
    \/ SharedEdit
    \/ EditTake
    \/ EditResume
    \/ SharedVote
    \/ VoteRecord
    \/ VoteDelete

SpecShared == Init /\ [][NextShared]_vars

-----------------------------------------------------------------------------
(* The batch loop and the not_valuable handlers, and the restart of the    *)
(* process.                                                                *)

(* One Twitter item in the feeds *)
RestartCycleStart == poll_cycle(MaxCycles, {<< >>, <<"twitter_1">>})

(* The process ends at an await and is started again: NewsAggregatorBot.   *)
(* __init__ constructs every store, which loads its JSON file; the cycle   *)
(* counter, the statistics, the queues and every running call are gone.    *)
Restart ==
    /\ processed_ids' = json_load_dict(disk.processed_ids)
    /\ embeddings' = json_load_list(disk.embeddings)
    /\ message_mapping' = json_load_dict(disk.message_mapping)
    /\ queue' = json_load_list(disk.queue)
    /\ votes' = json_load_dict(disk.votes)
    /\ removed_entries' = json_load_list(disk.removed_entries)
    /\ last_message_id' = disk.last_message_ids
    /\ current_cycle' = 0
    /\ stats' = [processed |-> 0, duplicates |-> 0, errors |-> 0]
    /\ message_queue' = << >>
    /\ bpc' = "sleep"
    /\ all_entries' = << >>
    /\ pe' = [p \in Tasks |-> IdlePe]
    /\ vh' = [h \in Handlers |-> IdleVh]
    /\ ed' = IdleEd
    /\ last' = NoOutcome
    /\ last_vote' = NoVote
    /\ ev' = [kind |-> "restart"]
    /\ UNCHANGED <<posted, now, discord, evicted, deleted, disk>>

NextRestart ==
    \/ RestartCycleStart
    \/ PollCycleCollect
    \/ PollCycleEntry
    \/ PollCycleResume
    \/ PollCycleEnd
    \/ SharedVote
    \/ VoteRecord
    \/ VoteDelete
    \/ Restart

SpecRestart == Init /\ [][NextRestart]_vars

-----------------------------------------------------------------------------
(* Database.find_similar asked about an index that holds the records of    *)
(* committed items, in any order of commit (two items that are duplicates  *)
(* of each other are both committed when both loops had them in flight).   *)

TextItems == {"twitter_1", "twitter_2", "telegram_ch_1"}

IndexedItems ==
    {items \in UNION {[1..n -> TextItems] : n \in 0..MaxIndex} :
        \A i, j \in 1..Len(items) : i # j => items[i] # items[j]}

QueryContents == {<<"a">>, <<"b">>, <<"c">>, <<"o">>, <<"img">>, NoContent}

Thresholds == {DUPLICATE_THRESHOLD, SIMILARITY_THRESHOLD}

FindSimilar ==
    /\ \E content \in QueryContents, threshold \in Thresholds :
         ev' = [kind |-> "find_similar", embedding |-> Embed(content),
                threshold |-> threshold,
                result |-> find_similar_return(embeddings, Embed(content), threshold)]
    /\ UNCHANGED <<processed_ids, embeddings, message_mapping, queue, current_cycle, stats,
                   last_message_id, message_queue, posted, now, bpc, all_entries, pe, discord,
                   evicted, last, votes, removed_entries, deleted, vh, last_vote, ed, disk>>

(* One scan at the lower threshold; the first record found decides *)
Disposition_OneScan(embs, embedding) ==
    LET i == find_similar(embs, embedding, SIMILARITY_THRESHOLD)
    IN  IF i = 0 THEN "novel"
        ELSE IF CosineAtLeast(embedding, embs[i].embedding, DUPLICATE_THRESHOLD)
        THEN "duplicate" ELSE "similar"

(* main.py 173-202: the two successive find_similar calls of process_entry *)
Disposition(embs, embedding) ==
    LET is_duplicate == find_similar_return(embs, embedding, DUPLICATE_THRESHOLD).is_duplicate
        is_similar == find_similar_return(embs, embedding, SIMILARITY_THRESHOLD).is_duplicate
    IN  IF is_duplicate THEN "duplicate"
        ELSE IF is_similar /\ ~is_duplicate THEN "similar"
        ELSE "novel"

CheckSimilarity ==
    /\ \E content \in QueryContents \ {NoContent} :
         ev' = [kind |-> "disposition", embedding |-> Embed(content),
                disposition |-> Disposition(embeddings, Embed(content))]
    /\ UNCHANGED <<processed_ids, embeddings, message_mapping, queue, current_cycle, stats,
                   last_message_id, message_queue, posted, now, bpc, all_entries, pe, discord,
                   evicted, last, votes, removed_entries, deleted, vh, last_vote, ed, disk>>

InitSimilar ==
    /\ \E items \in IndexedItems :
         /\ processed_ids = [id \in Range(items) |-> 0]
         /\ embeddings = RetainedEmbeddings(items, [id \in Ids |-> 0])
         /\ message_mapping = [id \in Range(items) |->
                MappingRecordAt(RetainedLocals(items, CHOOSE i \in 1..Len(items) : items[i] = id),
                                CHOOSE i \in 1..Len(items) : items[i] = id, 0)]
         /\ discord = [i \in 1..Len(items) |->
                [entry_id |-> items[i], category |-> RetainedLocals(items, i).category,
                 content |-> MessageText(Entry(items[i]).content, << >>),
                 embedding |-> Embed(Entry(items[i]).content),
                 task |-> IF Entry(items[i]).source_type = "telegram" THEN "rt" ELSE "batch"]]
         /\ stats = [processed |-> Len(items), duplicates |-> 0, errors |-> 0]
         /\ posted = Range(items) \cap TelegramIds
         /\ last_message_id = IF "telegram_ch_1" \in Range(items) THEN 1 ELSE 0
         /\ current_cycle = IF Range(items) \cap TwitterIds # {} THEN 1 ELSE 0
    /\ queue = << >>
    /\ message_queue = << >>
    /\ now = 0
    /\ bpc = "sleep"
    /\ all_entries = << >>
    /\ pe = [p \in Tasks |-> IdlePe]
    /\ evicted = {}
    /\ last = NoOutcome
    /\ votes = << >>
    /\ removed_entries = << >>
    /\ deleted = {}
    /\ vh = [h \in Handlers |-> IdleVh]
    /\ last_vote = NoVote
    /\ ed = IdleEd
    /\ ev = NoEvent
    /\ disk = Snapshot(processed_ids, embeddings, message_mapping, queue, votes,
                       removed_entries, last_message_id)

NextSimilar ==
    \/ FindSimilar
    \/ CheckSimilarity

SpecSimilar == InitSimilar /\ [][NextSimilar]_vars

-----------------------------------------------------------------------------
(* The decorator retry_with_backoff (utils.py 48-82) around the calls      *)
(* process_entry makes                                                     *)

(* @retry_with_backoff(max_retries=3, initial_delay=2) *)
BACKOFF_MAX_RETRIES == 3
INITIAL_DELAY == 2

MaxBackoffErrors == 1

(* What one execution of a decorated function's body does *)
BodyOutcomes == {"raise", "return_true", "return_false"}

(* What the successive executions of the body would do, one more than the  *)
(* decorator's budget                                                      *)
BodyRuns == [1..(BACKOFF_MAX_RETRIES + 2) -> BodyOutcomes]

(* wrapper's for loop: calls[attempt + 1] is what func(...) does in the   *)
(* try of that attempt; an exception is followed by                        *)
(* time.sleep(delay) and delay *= 2 while attempt < max_retries, the last  *)
(* one is raised again                                                     *)
RECURSIVE wrapper(_, _, _, _)
wrapper(calls, attempt, delay, slept) ==
    IF calls[attempt + 1] # "raise"
    THEN [returned |-> calls[attempt + 1], attempts |-> attempt + 1, slept |-> slept]
    ELSE IF attempt < BACKOFF_MAX_RETRIES
         THEN wrapper(calls, attempt + 1, delay * 2, Append(slept, delay))
         ELSE [returned |-> "raise", attempts |-> attempt + 1, slept |-> slept]

(* A decorated plain function: the call in the try runs the body *)
retry_with_backoff(runs) == wrapper(runs, 0, INITIAL_DELAY, << >>)

(* A decorated coroutine function: the call in the try only creates the    *)
(* coroutine object and cannot raise, wrapper returns that object from its *)
(* first attempt, and the body runs once, outside wrapper, when the caller *)
(* awaits the object                                                       *)
retry_with_backoff_coroutine(runs) ==
    LET created == wrapper([i \in DOMAIN runs |-> "coroutine"], 0, INITIAL_DELAY, << >>)
    IN  [returned |-> runs[1], attempts |-> created.attempts, slept |-> created.slept]

(* What except Exception of process_entry sees of a decorated call *)
Backoff(kind, runs, call) ==
    [kind |-> kind, runs |-> runs, result |-> call.returned, attempts |-> call.attempts,
     slept |-> call.slept, errors |-> stats.errors]

backoffFrame ==
    <<processed_ids, embeddings, message_mapping, queue, current_cycle, last_message_id,
      message_queue, posted, now, bpc, all_entries, pe, discord, evicted, last, votes,
      removed_entries, deleted, vh, last_vote, ed, disk>>

(* main.py 241-248 and 297-330: await self.discord_poster.post_message(...) *)
(* with DiscordPoster.post_message (discord_poster.py 794-899) raising,     *)
(* returning (False, None, None) or returning success; a raise or a False   *)
(* is counted in stats['errors']                                            *)
AwaitPostMessage ==
    /\ stats.errors < MaxBackoffErrors
    /\ \E runs \in BodyRuns :
         LET call == retry_with_backoff_coroutine(runs) IN
         /\ ev' = Backoff("post_message", runs, call)
         /\ stats' = [stats EXCEPT !.errors = IF call.returned = "return_true"
                                               THEN @ ELSE @ + 1]
    /\ UNCHANGED backoffFrame

(* main.py 170 and 320-330: self.ollama.generate_embedding(content), a     *)
(* plain function (ollama_client.py 194-195) that returns a vector or      *)
(* raises; the exception is counted in stats['errors']                     *)
CallGenerateEmbedding ==
    /\ stats.errors < MaxBackoffErrors
    /\ \E runs \in [1..(BACKOFF_MAX_RETRIES + 2) -> {"raise", "return_true"}] :
         LET call == retry_with_backoff(runs) IN
         /\ ev' = Backoff("generate_embedding", runs, call)
         /\ stats' = [stats EXCEPT !.errors = IF call.returned = "raise" THEN @ + 1 ELSE @]
    /\ UNCHANGED backoffFrame

NextBackoff ==
    \/ AwaitPostMessage
    \/ CallGenerateEmbedding

SpecBackoff == Init /\ [][NextBackoff]_vars

-----------------------------------------------------------------------------
(* Both loops and a Telegram channel with two messages, while the feeds    *)
(* are empty.                                                              *)

CursorCycleStart == poll_cycle(MaxCycles, {<< >>})

NextCursor ==
    \/ CursorCycleStart
    \/ PollCycleCollect
    \/ PollCycleEntry
    \/ PollCycleResume
    \/ PollCycleEnd
    \/ AnyMessage
    \/ QueueTake
    \/ QueueResume

SpecCursor == Init /\ [][NextCursor]_vars

-----------------------------------------------------------------------------
(* Shutdown: the finally of NewsAggregatorBot.run (main.py 586-599) while  *)
(* the real-time consumer works and the batch loop waits for its next      *)
(* cycle.                                                                  *)

(* telegram_queue_task.cancel() and await telegram_queue_task: the task    *)
(* gets CancelledError at the await it is suspended in, which neither      *)
(* except Exception of process_entry nor that of process_telegram_queue    *)
(* catches, so the call in flight ends there and nothing after the await   *)
(* runs.  A call suspended in post_message is suspended in channel.send    *)
(* (discord_poster.py 877): the request may have reached Discord before    *)
(* the cancellation, or not.  Then stop() ends the clients.                *)
Shutdown ==
    /\ bpc = "sleep"
    /\ bpc' = "stopped"
    /\ pe' = [p \in Tasks |-> IdlePe]
    /\ ev' = [kind |-> "shutdown", pc |-> pe["rt"].pc,
              in_flight |-> IF pe["rt"].pc = "idle" THEN "" ELSE pe["rt"].id]
    /\ last' = NoOutcome
    /\ \/ UNCHANGED discord
       \/ /\ pe["rt"].pc = "post"
          /\ Len(discord) < MaxDiscord
          /\ LET l == pe["rt"] IN
             discord' = Append(discord, [entry_id |-> l.id, category |-> l.category,
                                         content |-> MessageText(l.content, << >>),
                                         embedding |-> l.embedding, task |-> "rt"])
    /\ UNCHANGED <<processed_ids, embeddings, message_mapping, queue, current_cycle, stats,
                   last_message_id, message_queue, posted, now, all_entries, evicted, disk>>
    /\ UNCHANGED handlerVars

NextShutdown ==
    \/ AnyMessage
    \/ QueueTake
    \/ QueueResume
    \/ Shutdown

SpecShutdown == Init /\ [][NextShutdown]_vars

-----------------------------------------------------------------------------
(* The batch loop over two cycles and the not_valuable handlers: an item   *)
(* that stays in its feed is delivered by every poll.                      *)

RedeliveryCycleStart == poll_cycle(MaxCycles + 1, {<< >>, <<"twitter_1">>})

NextRedelivery ==
    \/ RedeliveryCycleStart
    \/ PollCycleCollect
    \/ PollCycleEntry
    \/ PollCycleResume
    \/ PollCycleEnd
    \/ SharedVote
    \/ VoteRecord
    \/ VoteDelete

SpecRedelivery == Init /\ [][NextRedelivery]_vars

-----------------------------------------------------------------------------
(* Properties *)

(* Some stored record reaches the threshold against embedding e *)
HasRecordAtLeast(embs, e, threshold) ==
    \E i \in 1..Len(embs) : CosineAtLeast(e, embs[i].embedding, threshold)

(* In this step the process_entry of task p has generated the item's       *)
(* embedding and compared it with the index: it went on to the publisher,  *)
(* or it returned as a duplicate or with an extraction failure.            *)
ComparedInStep(p) ==
    \/ pe[p].pc # "post" /\ pe'[p].pc = "post"
    \/ last'.task = p /\ last'.result \in {"duplicate", "retry_queued"}

ComparedEmbedding(p) ==
    IF pe'[p].pc = "post" THEN pe'[p].embedding ELSE last'.embedding

ClassifiedInStep(p) ==
    IF pe'[p].pc = "post" THEN pe'[p].classified ELSE last'.classified

(* The message the publisher sends is the one process_entry decided on *)
PublishedAsDecided ==
    last'.result \in {"ok", "commit_error"} =>
        /\ Len(discord') = Len(discord) + 1
        /\ discord'[Len(discord')].entry_id = pe[last'.task].id
        /\ discord'[Len(discord')].category = pe[last'.task].category

AllIdle == \A p \in Tasks : pe[p].pc = "idle"

(* C1: however often an item id is delivered, and however the batch cycle  *)
(* and the real-time consumer interleave, the publisher succeeds for an id *)
(* at most once: no id has two messages in the publisher's log.            *)
C1_PublishedAtMostOnce ==
    \A i, j \in 1..Len(discord) : discord[i].entry_id = discord[j].entry_id => i = j

(* C2: when process_entry compares an item whose embedding reaches the     *)
(* duplicate threshold against a record of the index, it returns at once   *)
(* as a duplicate: the publisher is not invoked, the duplicates counter    *)
(* grows by one, and ledger, index, mapping and retry queue are unchanged. *)
C2_DuplicateIsDropped ==
    [][\A p \in Tasks :
         (ComparedInStep(p)
          /\ HasRecordAtLeast(embeddings, ComparedEmbedding(p), DUPLICATE_THRESHOLD))
         => /\ last'.task = p
            /\ last'.result = "duplicate"
            /\ pe'[p] = IdlePe
            /\ discord' = discord
            /\ stats'.duplicates = stats.duplicates + 1
            /\ UNCHANGED <<processed_ids, embeddings, message_mapping, queue>>]_vars

C2_Witness == last.result = "duplicate" /\ embeddings # << >>

(* C3: two items with distinct ids whose embeddings reach the duplicate    *)
(* threshold, one processed by the batch cycle and one by the real-time    *)
(* consumer, are never both published.                                     *)
C3_NoDoublePublishAcrossLoops ==
    \A i, j \in 1..Len(discord) :
        (/\ discord[i].entry_id # discord[j].entry_id
         /\ discord[i].task = "batch"
         /\ discord[j].task = "rt")
        => ~CosineAtLeast(discord[i].embedding, discord[j].embedding, DUPLICATE_THRESHOLD)

(* C4: whenever no process_entry is running, every id of the ledger has    *)
(* its message mapping and the embedding record of its content.            *)
C4_CommitAllOrNothing ==
    AllIdle =>
        \A id \in DOMAIN processed_ids :
            /\ id \in DOMAIN message_mapping
            /\ \E i \in 1..Len(embeddings), o \in OcrTexts :
                 embeddings[i].hash =
                     ContentHash(CombinedContent(message_mapping[id].content, o))

(* C5: a process_entry call that fails (returns False) has not added the   *)
(* item's id to the ledger.                                                *)
C5_FailureNeverMarksProcessed ==
    [][(last'.result # "none" /\ ~last'.success)
       => (is_processed(processed_ids', last'.id) => is_processed(processed_ids, last'.id))]_vars

(* C6: when the publisher reports failure, the error counter grows by one  *)
(* and the call has left ledger, index, mapping and retry queue unchanged: *)
(* its last segment, and every segment that ended in an await before it.   *)
C6_PublishFailureLeavesStores ==
    [][/\ last'.result = "post_failed"
          => /\ stats'.errors = stats.errors + 1
             /\ ~InQueue(queue, last'.id) => ~InQueue(queue', last'.id)
             /\ UNCHANGED <<processed_ids, embeddings, message_mapping, queue>>
       /\ \A p \in Tasks :
            (pe'[p] # pe[p] /\ pe'[p].pc # "idle")
            => UNCHANGED <<processed_ids, embeddings, message_mapping, queue>>]_vars

C6_Witness == last.result = "post_failed"

(* C7: when no stored record reaches the duplicate threshold and one       *)
(* reaches the similar threshold, the classifier is not invoked and the    *)
(* category handed to the publisher is "ignore"; the publisher sends the   *)
(* item under that category.                                               *)
C7_SimilarIsForcedIgnore ==
    [][/\ \A p \in Tasks :
            (/\ ComparedInStep(p)
             /\ ~HasRecordAtLeast(embeddings, ComparedEmbedding(p), DUPLICATE_THRESHOLD)
             /\ HasRecordAtLeast(embeddings, ComparedEmbedding(p), SIMILARITY_THRESHOLD))
            => /\ ~ClassifiedInStep(p)
               /\ pe'[p].pc = "post" => pe'[p].category = "ignore"
               /\ ~(last'.task = p /\ last'.result = "duplicate")
       /\ PublishedAsDecided]_vars

C7_Witness ==
    /\ last.result = "ok"
    /\ ~last.classified
    /\ last.category = "ignore"
    /\ discord[Len(discord)].category = "ignore"

(* C8, as stated: when the index is empty or no stored record reaches the  *)
(* similar threshold, process_entry always invokes the classifier and goes *)
(* on to the publisher.                                                    *)
C8_NovelAlwaysClassified ==
    [][\A p \in Tasks :
         (ComparedInStep(p)
          /\ ~HasRecordAtLeast(embeddings, ComparedEmbedding(p), SIMILARITY_THRESHOLD))
         => (pe'[p].pc = "post" /\ pe'[p].classified)]_vars

(* C8, amended: when the index is empty or no stored record reaches the    *)
(* similar threshold, the item is never dropped as a duplicate and never   *)
(* given a forced category; unless media extraction fails (the item then   *)
(* goes to the retry queue unclassified), the classifier is invoked and    *)
(* the publisher is invoked with, and sends under, the classifier's        *)
(* category.                                                               *)
C8_NovelIsClassifiedUnlessExtractionFails ==
    [][/\ \A p \in Tasks :
            (ComparedInStep(p)
             /\ ~HasRecordAtLeast(embeddings, ComparedEmbedding(p), SIMILARITY_THRESHOLD))
            => \/ /\ pe'[p].pc = "post"
                  /\ pe'[p].classified
                  /\ pe'[p].category \in Categories
               \/ /\ last'.task = p
                  /\ last'.result = "retry_queued"
                  /\ ~last'.classified
                  /\ InQueue(queue', last'.id)
       /\ PublishedAsDecided]_vars

C8_Witness ==
    /\ last.result = "ok"
    /\ last.classified
    /\ discord[Len(discord)].category = last.category

(* C9: an id evicted from the retry queue for exceeding max_retries is not *)
(* passed to process_entry in any later cycle.                             *)
C9_EvictedNeverProcessedAgain ==
    \A r \in evicted :
        r.cycle < current_cycle =>
            /\ ~(pe["batch"].pc # "idle" /\ pe["batch"].id = r.id)
            /\ ~(last.task = "batch" /\ last.id = r.id)

(* C10: within a cycle, a retry queue entry that is not eligible (fewer    *)
(* than retry_delay_cycles cycles since its last attempt, which was in an  *)
(* earlier cycle) is left as it is: the item is not processed and its      *)
(* retry_count, first_attempt_cycle and last_attempt_cycle do not change.  *)
C10_IneligibleEntryUntouched ==
    [][\A i \in 1..Len(queue) :
         (/\ current_cycle' = current_cycle
          /\ queue[i].last_attempt_cycle < current_cycle
          /\ ~EligibleForRetry(queue[i], current_cycle))
         => \E j \in 1..Len(queue') : queue'[j] = queue[i]]_vars

(* C11: add_entry on an id that is not queued appends an entry with        *)
(* retry_count 1 and first_attempt_cycle = last_attempt_cycle = the        *)
(* current cycle; on a queued id it adds exactly 1 to retry_count, sets    *)
(* last_attempt_cycle to the current cycle and changes nothing else.       *)
C11_AddEntry ==
    [][last'.result = "retry_queued" =>
         IF InQueue(queue, last'.id)
         THEN /\ Len(queue') = Len(queue)
              /\ \A i \in 1..Len(queue) :
                   IF queue[i].id = last'.id
                   THEN queue'[i] = [id |-> last'.id,
                                     retry_count |-> queue[i].retry_count + 1,
                                     first_attempt_cycle |-> queue[i].first_attempt_cycle,
                                     last_attempt_cycle |-> current_cycle]
                   ELSE queue'[i] = queue[i]
         ELSE queue' = Append(queue, [id |-> last'.id, retry_count |-> 1,
                                      first_attempt_cycle |-> current_cycle,
                                      last_attempt_cycle |-> current_cycle])]_vars

C11_Witness ==
    /\ last.result = "retry_queued"
    /\ Len(queue) = 2
    /\ QueueEntry(queue, last.id).retry_count = 2
    /\ QueueEntry(queue, last.id).first_attempt_cycle < current_cycle

(* C12: while an id stays in the retry queue its retry_count is at least 1 *)
(* and never decreases, and no entry whose retry_count exceeds max_retries *)
(* is left in the queue by the scan at the start of a cycle.               *)
C12_RetryCountMonotone ==
    [][/\ \A i \in 1..Len(queue) :
            /\ queue[i].retry_count >= 1
            /\ InQueue(queue', queue[i].id)
               => QueueEntry(queue', queue[i].id).retry_count >= queue[i].retry_count
       /\ current_cycle' # current_cycle
          => \A j \in 1..Len(queue') : queue'[j].retry_count <= max_retries]_vars

C12_Witness ==
    /\ evicted # {}
    /\ \E i \in 1..Len(queue) : queue[i].retry_count = max_retries

C15_ExtractionFailureIsQueued ==
    [][last'.result = "retry_queued" =>
         /\ InQueue(queue', last'.id)
         /\ QueueEntry(queue', last'.id).retry_count =
              IF InQueue(queue, last'.id)
              THEN QueueEntry(queue, last'.id).retry_count + 1 ELSE 1
         /\ QueueEntry(queue', last'.id).last_attempt_cycle = current_cycle
         /\ ~last'.success
         /\ ~last'.classified
         /\ discord' = discord
         /\ stats'.errors = stats.errors + 1
         /\ UNCHANGED <<processed_ids, embeddings, message_mapping>>]_vars

C15_Witness ==
    /\ last.result = "retry_queued"
    /\ embeddings # << >>
    /\ QueueEntry(queue, last.id).retry_count = 3

(* C16: an exception in process_entry that is not the recoverable          *)
(* extraction failure (embedding generation or publisher raising) counts   *)
(* one error and creates or changes no retry queue entry.                  *)
C16_OtherErrorsAreTerminal ==
    [][last'.result \in {"embedding_error", "post_raised", "commit_error"} =>
         /\ ~last'.success
         /\ stats'.errors = stats.errors + 1
         /\ queue' = queue]_vars

C16_Witness == last.result \in {"embedding_error", "post_raised"} /\ last.queued

(* C17: when the media extraction times out, the item goes to the retry    *)
(* queue: process_entry never goes on to the publisher with it.            *)
C17_ExtractionTimeoutIsQueued ==
    \A p \in Tasks : pe[p].pc = "post" => ~pe[p].timeout

(* C18: when the classifier call fails, the item is a terminal error:      *)
(* process_entry never goes on to the publisher with it under any category.*)
C18_ClassifierFailureIsTerminal ==
    \A p \in Tasks : pe[p].pc = "post" => ~pe[p].classifier_failed

NoRepeatedVoter(voters) ==
    \A i, j \in 1..Len(voters) : voters[i] = voters[j] => i = j

(* C19: add_vote by a voter already recorded for the message returns       *)
(* is_duplicate_vote = TRUE with the unchanged count and leaves the record *)
(* as it is; by a new voter it returns FALSE and the count plus one, and   *)
(* appends the voter.  So no voter appears twice in a record and the       *)
(* returned count is the number of distinct voters of the record.          *)
C19_AddVote ==
    [][/\ last_vote'.outcome \in {"duplicate", "recorded", "quorum"} =>
            LET m == last_vote'.message
                before == Voters(votes, m)
            IN  /\ m \in DOMAIN votes'
                /\ \A x \in DOMAIN votes \ {m} : x \in DOMAIN votes' /\ votes'[x] = votes[x]
                /\ last_vote'.vote_count = Cardinality(Range(votes'[m].voters))
                /\ IF last_vote'.voter \in Range(before)
                   THEN /\ last_vote'.is_duplicate
                        /\ last_vote'.vote_count = Len(before)
                        /\ votes' = votes
                   ELSE /\ ~last_vote'.is_duplicate
                        /\ last_vote'.vote_count = Len(before) + 1
                        /\ votes'[m].voters = Append(before, last_vote'.voter)
       /\ \A m \in DOMAIN votes' : NoRepeatedVoter(votes'[m].voters)]_vars

C19_Witness ==
    /\ last_vote.outcome = "duplicate"
    /\ last_vote.is_duplicate
    /\ last_vote.vote_count = 2

(* C20: a removal is started only by a vote that is not a repeated vote and *)
(* brings the record to at least two distinct voters; a removal deletes    *)
(* the message and appends one archive record; and the archive never holds *)
(* two records of one message, however the handlers interleave.            *)
C20_QuorumRemoval ==
    [][/\ last_vote'.outcome = "quorum" =>
            /\ ~last_vote'.is_duplicate
            /\ last_vote'.voter \notin Range(Voters(votes, last_vote'.message))
            /\ Cardinality(Range(Voters(votes', last_vote'.message)))
                 >= NOT_VALUABLE_VOTES_REQUIRED
       /\ last_vote'.is_duplicate =>
            /\ last_vote'.outcome = "duplicate"
            /\ \A h \in Handlers : vh'[h].pc = "delete" => vh[h].pc = "delete"
       /\ last_vote'.outcome = "removed" =>
            /\ Len(removed_entries') = Len(removed_entries) + 1
            /\ last_vote'.message \in deleted' \ deleted
            /\ Cardinality(Range(removed_entries'[Len(removed_entries')].voter_ids))
                 >= NOT_VALUABLE_VOTES_REQUIRED
       /\ last_vote'.outcome # "removed" =>
            /\ removed_entries' = removed_entries
            /\ deleted' = deleted
            /\ UNCHANGED <<processed_ids, message_mapping, embeddings>>
       /\ \A i, j \in 1..Len(removed_entries') :
            removed_entries'[i].discord_message_id = removed_entries'[j].discord_message_id
            => i = j]_vars

C20_Witness ==
    /\ last_vote.outcome = "delete_failed"
    /\ Len(removed_entries) = 1
    /\ removed_entries[1].discord_message_id = last_vote.message

C21_QuorumDropsVoteRecord ==
    [][last_vote'.outcome \in {"removed", "delete_failed"}
       => last_vote'.message \notin DOMAIN votes']_vars

(* The embedding record the pipeline stored for a published message: it is *)
(* keyed by the posted content, merged with the OCR text when there is one *)
HasEmbeddingOf(embs, content) ==
    \E i \in 1..Len(embs), o \in OcrTexts :
        embs[i].hash = ContentHash(CombinedContent(content, o))

(* C22: once a removal has gone through, the ledger entry, the message     *)
(* mapping and the embedding record of the published item are gone, however *)
(* the item was committed, and one archive record of it has been appended. *)
C22_RemovalClearsStateStore ==
    [][LET m == last_vote'.message
           id == discord[m].entry_id
       IN  (last_vote'.outcome = "removed" /\ id \in DOMAIN message_mapping) =>
             /\ ~is_processed(processed_ids', id)
             /\ id \notin DOMAIN message_mapping'
             /\ ~HasEmbeddingOf(embeddings', discord[m].content)
             /\ Len(removed_entries') = Len(removed_entries) + 1
             /\ removed_entries'[Len(removed_entries')].entry_id = id]_vars

(* The entries are in non-decreasing order of timestamp (0 for none) *)
SortedByTimestamp(s) ==
    \A i, j \in 1..Len(s) : i < j => get_entry_timestamp(s[i]) <= get_entry_timestamp(s[j])

(* The id the batch loop hands to process_entry in this step, "" if none *)
BatchStarted ==
    IF pe["batch"].pc = "idle" /\ pe'["batch"].pc # "idle" THEN pe'["batch"].id
    ELSE IF pe["batch"].pc = "idle" /\ last'.task = "batch" THEN last'.id
    ELSE ""

C27_PollerFailureIsContained ==
    [][/\ (ev'.kind = "poll_rss" /\ ev'.failed) =>
            /\ bpc' = "polling"
            /\ all_entries' =
                 get_entries_to_retry(
                     rq_cleanup_old_entries(queue, current_cycle', RETRY_MAX_AGE_HOURS),
                     current_cycle')
       /\ (ev'.kind = "poll_telegram" /\ ev'.failed) =>
            /\ bpc' = "loop"
            /\ SortedByTimestamp(all_entries')
            /\ Len(all_entries') = Len(all_entries)
            /\ Range(all_entries') = Range(all_entries)
       /\ (ev'.kind = "poll_telegram" /\ ~ev'.failed) =>
            /\ Range(all_entries) \subseteq Range(all_entries')
            /\ \A id \in posted :
                 Entry(id).message_id > last_message_id =>
                   \/ id \in Range(all_entries')
                   \/ all_entries' = SortEntries(all_entries)
       /\ (bpc = "loop" /\ bpc' = "sleep") => all_entries = << >>]_vars

C27_Witness ==
    /\ ev.kind = "poll_telegram"
    /\ ev.failed
    /\ bpc = "loop"
    /\ Len(all_entries) = 2
    /\ posted # {}

(* The number of times record r occurs in sequence s *)
Occurrences(s, r) == Cardinality({i \in 1..Len(s) : s[i] = r})

(* sel holds the Len(sel) records of entries with the greatest removed_at, *)
(* newest first                                                            *)
IsNewestOf(sel, entries) ==
    /\ \A i, j \in 1..Len(sel) : i < j => sel[i].removed_at >= sel[j].removed_at
    /\ \A r \in Range(sel) : Occurrences(sel, r) <= Occurrences(entries, r)
    /\ \A r \in Range(entries) :
         Occurrences(sel, r) < Occurrences(entries, r)
         => \A i \in 1..Len(sel) : sel[i].removed_at >= r.removed_at

(* C23: get_content_previews(limit, max_preview_length) returns one        *)
(* preview for each of the limit most recently removed entries (all of     *)
(* them when there are fewer), newest first, each a prefix of the entry's  *)
(* content and at most max_preview_length long.                            *)
C23_ContentPreviews ==
    [][(ev'.kind = "archive" /\ ev'.op = "get_content_previews") =>
         /\ Len(ev'.result) <= ev'.limit
         /\ Len(ev'.result) = Len(ev'.recent)
         /\ Len(ev'.recent) = IF ev'.limit < Len(removed_entries)
                              THEN ev'.limit ELSE Len(removed_entries)
         /\ IsNewestOf(ev'.recent, removed_entries)
         /\ \A i \in 1..Len(ev'.result) :
              /\ Len(ev'.result[i]) <= ev'.max_preview_length
              /\ ev'.result[i] = SubSeq(ev'.recent[i].content, 1, Len(ev'.result[i]))]_vars

(* C24: a record of the archive stays, with its fields and in its place    *)
(* relative to the others, through every operation of the archive; only    *)
(* the age-based cleanup takes records out, and only those whose           *)
(* removed_at is before its cutoff; the accessors change nothing.          *)
C24_ArchiveAppendOnly ==
    [][LET gone(r) == Occurrences(removed_entries', r) < Occurrences(removed_entries, r)
       IN  /\ \A r \in Range(removed_entries) :
                gone(r) => /\ ev'.kind = "archive"
                           /\ ev'.op = "cleanup_old_entries"
                           /\ r.removed_at < ev'.cutoff
           /\ \E n \in 0..Len(removed_entries') :
                SubSeq(removed_entries', 1, n) =
                    SelectSeq(removed_entries, LAMBDA r : ~gone(r))
           /\ (ev'.kind = "archive"
               /\ ev'.op \in {"get_recent_removed_entries", "get_content_previews"})
              => removed_entries' = removed_entries]_vars

(* C26: after Database.cleanup_old_entries the ledger and the embedding    *)
(* index hold exactly the entries they held whose timestamp is not before  *)
(* the cutoff now - DB_RETENTION_HOURS, each unchanged and in its place:   *)
(* an entry at the cutoff or just inside the window stays, an older one is *)
(* gone; the message mapping is as it was.                                 *)
C26_CleanupKeepsTheWindow ==
    [][ev'.kind = "db_cleanup" =>
         LET cutoff == now - DB_RETENTION_HOURS
             kept == {i \in 1..Len(embeddings) : embeddings[i].timestamp >= cutoff}
         IN  /\ DOMAIN processed_ids' = {id \in DOMAIN processed_ids : processed_ids[id] >= cutoff}
             /\ \A id \in DOMAIN processed_ids' : processed_ids'[id] = processed_ids[id]
             /\ Len(embeddings') = Cardinality(kept)
             /\ \A i \in kept : \E j \in 1..Len(embeddings') : embeddings'[j] = embeddings[i]
             /\ \A i, j \in 1..Len(embeddings') :
                  i < j => \E a, b \in kept : /\ a < b
                                              /\ embeddings[a] = embeddings'[i]
                                              /\ embeddings[b] = embeddings'[j]
             /\ message_mapping' = message_mapping]_vars

C26_Witness ==
    /\ ev.kind = "db_cleanup"
    /\ ev.old_ids = 1
    /\ ev.old_embeddings = 1
    /\ \E id \in DOMAIN processed_ids : processed_ids[id] = ev.cutoff
    /\ \E i \in 1..Len(embeddings) : embeddings[i].timestamp = ev.cutoff + 1
    /\ DOMAIN message_mapping = TwitterIds

(* The step in which process_telegram_edit is called with the edit at the  *)
(* head of the queue, and the step in which it is back from edit_message   *)
EditStarts == ed.pc = "idle" /\ ed.edit_queue # << >> /\ ed'.edit_queue = Tail(ed.edit_queue)

EditReturns == ed.pc = "edit" /\ ed'.pc = "idle"

DiskInSync ==
    /\ json_load_dict(disk.processed_ids) = processed_ids
    /\ json_load_list(disk.embeddings) = embeddings
    /\ json_load_dict(disk.message_mapping) = message_mapping
    /\ json_load_list(disk.queue) = queue
    /\ json_load_dict(disk.votes) = votes
    /\ json_load_list(disk.removed_entries) = removed_entries
    /\ disk.last_message_ids = last_message_id

C32_FindSimilarFirstMatch ==
    [][ev'.kind = "find_similar" =>
         LET q == ev'.embedding
             hits == {i \in 1..Len(embeddings) :
                         CosineAtLeast(q, embeddings[i].embedding, ev'.threshold)}
         IN  /\ embeddings' = embeddings
             /\ hits = {} => ev'.result = NotFound
             /\ hits # {} =>
                  \E i \in hits :
                     /\ \A j \in 1..(i - 1) : j \notin hits
                     /\ ev'.result.is_duplicate
                     /\ ev'.result.found
                     /\ ev'.result.preview = embeddings[i].preview
                     /\ ev'.result.similarity = Similarity(q, embeddings[i].embedding)]_vars

C32_Witness ==
    /\ ev.kind = "find_similar"
    /\ ev.result.is_duplicate
    /\ ev.result.preview = embeddings[1].preview
    /\ \E j \in 2..Len(embeddings) :
         Closer(Similarity(ev.embedding, embeddings[j].embedding), ev.result.similarity)

(* The greatest similarity of a stored record to q reaches the threshold *)
BestMatchAtLeast(embs, q, threshold) ==
    /\ embs # << >>
    /\ LET best == CHOOSE i \in 1..Len(embs) : \A j \in 1..Len(embs) :
                       \/ CosineAtLeast(q, embs[i].embedding, 0) /\ ~CosineAtLeast(q, embs[j].embedding, 0)
                       \/ /\ CosineAtLeast(q, embs[i].embedding, 0)
                          /\ ~Closer(Similarity(q, embs[j].embedding),
                                     Similarity(q, embs[i].embedding))
                       \/ /\ ~CosineAtLeast(q, embs[i].embedding, 0)
                          /\ ~CosineAtLeast(q, embs[j].embedding, 0)
                          /\ ~Closer(Similarity(q, embs[i].embedding),
                                     Similarity(q, embs[j].embedding))
       IN  CosineAtLeast(q, embs[best].embedding, threshold)

(* C39: the disposition process_entry derives from its two find_similar    *)
(* calls is a function of the set of stored records: duplicate iff some    *)
(* record has similarity >= 0.95, similar iff none has but some record has *)
(* similarity >= 0.70, novel otherwise; it is the disposition a search for *)
(* the closest record gives.                                               *)
C39_DispositionIgnoresOrder ==
    [][ev'.kind = "disposition" =>
         LET q == ev'.embedding
             some(threshold) == \E r \in Range(embeddings) :
                                    CosineAtLeast(q, r.embedding, threshold)
             by_set == IF some(DUPLICATE_THRESHOLD) THEN "duplicate"
                       ELSE IF some(SIMILARITY_THRESHOLD) THEN "similar" ELSE "novel"
             by_best == IF BestMatchAtLeast(embeddings, q, DUPLICATE_THRESHOLD) THEN "duplicate"
                        ELSE IF BestMatchAtLeast(embeddings, q, SIMILARITY_THRESHOLD)
                        THEN "similar" ELSE "novel"
         IN  /\ ev'.disposition = by_set
             /\ ev'.disposition = by_best]_vars

C39_Witness ==
    /\ ev.kind = "disposition"
    /\ ev.disposition = "duplicate"
    /\ Len(embeddings) >= 2
    /\ CosineAtLeast(ev.embedding, embeddings[1].embedding, SIMILARITY_THRESHOLD)
    /\ ~CosineAtLeast(ev.embedding, embeddings[1].embedding, DUPLICATE_THRESHOLD)

(* C38: every record of the embedding index holds the embedding and the    *)
(* preview of the content its key is the hash of, and no two records have  *)
(* the same key.                                                           *)
C38_VectorMatchesKey ==
    /\ \A i \in 1..Len(embeddings) :
         LET content == embeddings[i].hash[2]
         IN  /\ embeddings[i].embedding = Embed(content)
             /\ embeddings[i].preview = Preview(content)
    /\ \A i, j \in 1..Len(embeddings) : embeddings[i].hash = embeddings[j].hash => i = j


(* C33: a publish call that raises is attempted again by retry_with_backoff, *)
(* so that the failure reaches process_entry only after                    *)
(* BACKOFF_MAX_RETRIES + 1 failed attempts with the delays 2, 4 and 8      *)
(* between them.                                                           *)
C33_PublishRetried ==
    [][ev'.kind = "post_message" /\ ev'.result = "raise" =>
          /\ ev'.attempts = BACKOFF_MAX_RETRIES + 1
          /\ ev'.slept = <<INITIAL_DELAY, 2 * INITIAL_DELAY, 4 * INITIAL_DELAY>>]_vars


(* C40: an id enters the ledger only in the step in which the publisher    *)
(* returned success for it: the step sends the item's message, and the     *)
(* call that ends as a duplicate, without content, with a failed or        *)
(* raising publish, with an error before the publish or in the retry queue *)
(* leaves the ledger as it was.                                            *)
C40_LedgerOnlyAfterPublish ==
    [][/\ \A id \in Ids :
            (is_processed(processed_ids', id) /\ ~is_processed(processed_ids, id)) =>
               /\ Len(discord') = Len(discord) + 1
               /\ discord'[Len(discord')].entry_id = id
               /\ last'.id = id
               /\ last'.result \in {"ok", "commit_error"}
       /\ last'.result \in {"duplicate", "no_content", "no_media", "post_failed",
                            "post_raised", "embedding_error", "retry_queued"}
            => processed_ids' = processed_ids]_vars

C40_Witness ==
    /\ last.result = "ok"
    /\ is_processed(processed_ids, last.id)
    /\ \E i \in 1..Len(discord) : discord[i].entry_id = last.id
    /\ stats.errors + stats.duplicates > 0


(* C35: in every reachable state, a restart that reloads the retry queue   *)
(* included, every queued entry has                                        *)
(* first_attempt_cycle <= last_attempt_cycle <= current_cycle.             *)
C35_QueueCyclesOrdered ==
    \A i \in 1..Len(queue) :
        /\ queue[i].first_attempt_cycle <= queue[i].last_attempt_cycle
        /\ queue[i].last_attempt_cycle <= current_cycle


(* C34: within one batch cycle an id is passed to process_entry at most    *)
(* once, so that the retry_count of a queued entry grows at most once per  *)
(* cycle: an entry whose count grows was not yet attempted in this cycle.  *)
C34_OneAttemptPerCycle ==
    [][\A i \in 1..Len(queue), j \in 1..Len(queue') :
          (queue[i].id = queue'[j].id /\ queue'[j].retry_count > queue[i].retry_count)
              => queue[i].last_attempt_cycle < current_cycle']_vars


(* C37: the last seen message id of the channel never decreases, and it    *)
(* is not past a message whose processing fails: when process_entry fails  *)
(* for a Telegram message that is not in the ledger, the cursor is still   *)
(* below the message's id, so that the next poll of the channel, which     *)
(* asks for the ids above the cursor, delivers the message again.          *)
C37_CursorBehindFailedItem ==
    [][/\ last_message_id' >= last_message_id
       /\ (/\ last'.result # "none"
           /\ ~last'.success
           /\ last'.id \in TelegramIds
           /\ ~is_processed(processed_ids', last'.id))
          => last_message_id' < Entry(last'.id).message_id]_vars


(* C31: the call of process_entry that the real-time consumer has in       *)
(* flight when the shutdown begins is completed: the item is committed to  *)
(* the ledger or its failure is counted, and when its message has been     *)
(* published the item is in the ledger, the index and the mapping.         *)
C31_ShutdownCompletesInFlight ==
    [][(ev'.kind = "shutdown" /\ pe["rt"].pc # "idle") =>
          LET l == pe["rt"] IN
          /\ is_processed(processed_ids', l.id) \/ stats'.errors = stats.errors + 1
          /\ Len(discord') > Len(discord) =>
                /\ is_processed(processed_ids', l.id)
                /\ l.id \in DOMAIN message_mapping'
                /\ \E i \in 1..Len(embeddings') :
                       embeddings'[i].hash \in {ContentHash(CombinedContent(l.content, o)) :
                                                   o \in OcrTexts}]_vars


(* C36: an item that the moderators' quorum has removed is not published   *)
(* again when a poller delivers its id again: no step sends a message for  *)
(* an id that is in the archive of removed entries.                        *)
C36_RemovedNotRepublished ==
    [][Len(discord') > Len(discord) =>
          \A i \in 1..Len(removed_entries) :
              removed_entries[i].entry_id # discord'[Len(discord')].entry_id]_vars

====
